---- MODULE Spec2Model ----
(***************************************************************************)
(* A model of the @replaces directive tooling of gqlgen-plugins            *)
(* (graphqltools/replaces_directive.go): the Replacer that indexes a       *)
(* parsed schema in two passes and synthesises the overlay schema holding  *)
(* the old names.                                                          *)
(*                                                                         *)
(* Go strings are sequences of one-character strings, so that ordering,    *)
(* whole-word matching and concatenation are computed as the code computes *)
(* them.  Directive and argument names, definition kinds and error         *)
(* messages are fixed words of the program and are plain TLA+ strings.     *)
(* A Go pointer to a definition is the definition's key in schema.Types;   *)
(* fields, arguments and enum values are never written through a pointer,  *)
(* so a pointer to one of them is modelled by its value.                   *)
(***************************************************************************)
EXTENDS Integers, Sequences, FiniteSets, TLC

VARIABLES
    parsed,     \* the schema as the parser produced it (never written)
    schema,     \* the *ast.Schema the caller holds: name -> definition
    input,      \* schema.Types as it was when the running call was made
    pc,         \* position of the running call
    mode,       \* which entry point is running: "updates" or "validate"
    todo,       \* names the current range over schema.Types has not yet visited
    r,          \* the Replacer of the running call
    buf,        \* the strings.Builder of getSchemaAdditions
    errsAtSynth,\* len(r.errors) when getSchemaAdditions was entered, -1 before
    results,    \* what the finished calls returned, oldest first
    query,      \* the query text handed to MetadataForOperation, as LoadQuery reads it
    returned    \* what the calls of MetadataForOperation returned

vars == <<parsed, schema, input, pc, mode, todo, r, buf, errsAtSynth, results,
         query, returned>>

-----------------------------------------------------------------------------
(* Bounds of the model *)

\* definitions in one schema
MaxDefs == 2
\* calls made on one schema
MaxRuns == 2

-----------------------------------------------------------------------------
(* Strings *)

Upper == <<"A","B","C","D","E","F","G","H","I","J","K","L","M",
           "N","O","P","Q","R","S","T","U","V","W","X","Y","Z">>
Lower == <<"a","b","c","d","e","f","g","h","i","j","k","l","m",
           "n","o","p","q","r","s","t","u","v","w","x","y","z">>
Digits == <<"0","1","2","3","4","5","6","7","8","9">>

\* The characters of the model in byte order.
Alphabet == <<"\t", "\n", " ", "#", ".">> \o Digits \o <<":">> \o Upper
            \o <<"_">> \o Lower \o <<"{", "}">>

Code(c) == CHOOSE i \in DOMAIN Alphabet : Alphabet[i] = c

Range(s) == { s[i] : i \in DOMAIN s }

Min(a, b) == IF a < b THEN a ELSE b

\* Go's < on strings: bytewise lexicographic.
LessStr(a, b) ==
    \E n \in 0..Min(Len(a), Len(b)) :
        /\ \A j \in 1..n : a[j] = b[j]
        /\ n < Len(b)
        /\ (n < Len(a) => Code(a[n + 1]) < Code(b[n + 1]))

\* regexp \w
IsWordChar(c) == c \in Range(Upper) \cup Range(Lower) \cup Range(Digits) \cup {"_"}

\* regexp \b at the gap after position i of text (0 = before the first byte)
IsBoundary(text, i) ==
    LET before == i >= 1 /\ IsWordChar(text[i])
        after  == i < Len(text) /\ IsWordChar(text[i + 1])
    IN before # after

\* `\bword\b` matches text at bytes i .. i+Len(word)-1
MatchesWordAt(text, word, i) ==
    /\ i >= 1
    /\ i + Len(word) - 1 <= Len(text)
    /\ SubSeq(text, i, i + Len(word) - 1) = word
    /\ IsBoundary(text, i - 1)
    /\ IsBoundary(text, i + Len(word) - 1)

_containsExactWord(text, word) ==
    \E i \in 1..Len(text) : MatchesWordAt(text, word, i)

RECURSIVE ReplaceFrom(_, _, _, _)
ReplaceFrom(text, word, replacement, i) ==
    IF i > Len(text) THEN <<>>
    ELSE IF MatchesWordAt(text, word, i)
         THEN replacement \o ReplaceFrom(text, word, replacement, i + Len(word))
         ELSE <<text[i]>> \o ReplaceFrom(text, word, replacement, i + 1)

_replaceExactWord(text, word, replacement) ==
    ReplaceFrom(text, word, replacement, 1)

\* strings.Title on an identifier: the first letter is upper-cased (letters,
\* digits and "_" do not separate words).
Title(s) ==
    IF s = <<>> THEN s
    ELSE IF s[1] \in Range(Lower)
         THEN <<Upper[CHOOSE i \in DOMAIN Lower : Lower[i] = s[1]]>> \o Tail(s)
         ELSE s

\* sort.Strings over the keys of a map
RECURSIVE SortStrings(_)
SortStrings(S) ==
    IF S = {} THEN <<>>
    ELSE LET m == CHOOSE x \in S : \A y \in S \ {x} : LessStr(x, y)
         IN <<m>> \o SortStrings(S \ {m})

-----------------------------------------------------------------------------
(* Go maps *)

EmptyMap == <<>>

HasKey(m, k) == k \in DOMAIN m

MapPut(m, k, v) == [x \in DOMAIN m \cup {k} |-> IF x = k THEN v ELSE m[x]]

\* m[k] of a map of slices: nil when k is absent
SliceAt(m, k) == IF k \in DOMAIN m THEN m[k] ELSE <<>>

-----------------------------------------------------------------------------
(* The gqlparser AST *)

\* ast.Type: exactly one of NamedType and Elem is set
Named(name, nonNull) == [NamedType |-> name, Elem |-> <<>>, NonNull |-> nonNull]
ListOf(elem, nonNull) == [NamedType |-> <<>>, Elem |-> <<elem>>, NonNull |-> nonNull]

Directive(name, args) == [Name |-> name, Arguments |-> args]
Argument(name, raw) == [Name |-> name, Raw |-> raw]

\* DirectiveList.ForName / ArgumentList.ForName: the first one of that name,
\* as a sequence of length 0 (nil) or 1
ForName(list, name) ==
    LET hits == { i \in DOMAIN list : list[i].Name = name }
    IN IF hits = {} THEN <<>>
       ELSE <<list[CHOOSE i \in hits : \A j \in hits : i <= j]>>

sTrue == <<"t","r","u","e">>
sFalse == <<"f","a","l","s","e">>

-----------------------------------------------------------------------------
(* Marker extraction *)
(* An operator that needs the result of a call more than once takes it as   *)
(* a parameter, as the code keeps it in a local variable.                   *)

NoInfo == [OldName |-> <<>>, OldTypeName |-> <<>>,
           WasRequiredBeforeRename |-> FALSE,
           TreatZeroAsUnset |-> FALSE, TreatZeroAsUnsetPresent |-> FALSE]

MkError(kindOf, message, where) ==
    [Kind |-> kindOf, Message |-> message, Where |-> where]

NameRequired == MkError("Internal", "name required on @replaces directive", <<>>)

\* arg.Value.Raw of the named argument, "" when it is absent
RawOf(arguments, name) ==
    IF ForName(arguments, name) = <<>> THEN <<>> ELSE ForName(arguments, name)[1].Raw

\* InfoOfDirective that takes treatZeroAsUnset as supplied only when it is true
InfoOfDirectiveByValue(arguments) ==
    IF ForName(arguments, "name") = <<>> THEN [info |-> NoInfo, err |-> "Internal"]
    ELSE [info |->
            [OldName |-> RawOf(arguments, "name"),
             OldTypeName |-> RawOf(arguments, "type"),
             WasRequiredBeforeRename |-> RawOf(arguments, "wasRequiredBeforeRename") = sTrue,
             TreatZeroAsUnset |-> RawOf(arguments, "treatZeroAsUnset") = sTrue,
             TreatZeroAsUnsetPresent |-> RawOf(arguments, "treatZeroAsUnset") = sTrue],
          err |-> "nil"]

\* GetReplaceInfo once the @replaces directive is found
InfoOfDirective(arguments) ==
    IF ForName(arguments, "name") = <<>> THEN [info |-> NoInfo, err |-> "Internal"]
    ELSE [info |->
            [OldName |-> RawOf(arguments, "name"),
             OldTypeName |-> RawOf(arguments, "type"),
             WasRequiredBeforeRename |-> RawOf(arguments, "wasRequiredBeforeRename") = sTrue,
             TreatZeroAsUnset |-> RawOf(arguments, "treatZeroAsUnset") = sTrue,
             TreatZeroAsUnsetPresent |-> ForName(arguments, "treatZeroAsUnset") # <<>>],
          err |-> "nil"]

\* GetReplaceInfo: err is "nil", "NotFound" or "Internal"
GetReplaceInfo(directives) ==
    IF ForName(directives, "replaces") = <<>> THEN [info |-> NoInfo, err |-> "NotFound"]
    ELSE InfoOfDirective(ForName(directives, "replaces")[1].Arguments)

-----------------------------------------------------------------------------
(* The Replacer: index construction *)

NewReplacer ==
    [errors |-> <<>>,
     fields |-> EmptyMap,
     definitions |-> <<>>,
     enumValues |-> EmptyMap,
     extraImplements |-> EmptyMap,
     extraUnionMembers |-> EmptyMap,
     cacheReplacedTypes |-> EmptyMap,
     definitionKinds |-> EmptyMap,
     federationKeys |-> EmptyMap,
     hasProcessedSchema |-> FALSE]

AddError(rep, e) == [rep EXCEPT !.errors = Append(@, e)]

\* KeepError taking a directive list without marker for a marked one
KeepErrorAlwaysFound(rep, got) ==
    IF got.err = "Internal"
    THEN [rep |-> AddError(rep, NameRequired), info |-> NoInfo, ok |-> FALSE]
    ELSE [rep |-> rep, info |-> got.info, ok |-> TRUE]

\* (r *Replacer).getReplaceInfo given what GetReplaceInfo returned: NotFound
\* is dropped, any other error is kept
KeepError(rep, got) ==
    IF got.err = "NotFound" THEN [rep |-> rep, info |-> NoInfo, ok |-> FALSE]
    ELSE IF got.err # "nil"
         THEN [rep |-> AddError(rep, NameRequired), info |-> NoInfo, ok |-> FALSE]
         ELSE [rep |-> rep, info |-> got.info, ok |-> TRUE]

getReplaceInfo(rep, directives) == KeepError(rep, GetReplaceInfo(directives))

_isNonListField(field) == field.Type.NamedType # <<>>

\* ArgumentVerdict without the error
ArgumentVerdictUnchecked(got, typeName, field, arg) == got.rep

\* _processField, field without marker: the verdict on one argument
ArgumentVerdict(got, typeName, field, arg) ==
    IF got.ok
    THEN AddError(got.rep,
           MkError("Internal",
             "@replaces directive on arguments can only be used on renamed fields",
             <<typeName, field.Name, arg.Name>>))
    ELSE got.rep

RECURSIVE CheckArguments(_, _, _, _)
CheckArguments(rep, typeName, field, i) ==
    IF i > Len(field.Arguments) THEN rep
    ELSE CheckArguments(
           ArgumentVerdict(getReplaceInfo(rep, field.Arguments[i].Directives),
                           typeName, field, field.Arguments[i]),
           typeName, field, i + 1)

\* NullableCheck without the test of the definition's kind
NullableCheckAnyKind(rep, typeName, definitionKind, field) ==
    IF field.Type.NonNull
    THEN AddError(rep,
           MkError("InvalidInput",
             "input fields using the @replaces directive must be nullable",
             <<typeName, field.Name>>))
    ELSE rep

\* _processField, field with marker: the two checks on input fields
NullableCheck(rep, typeName, definitionKind, field) ==
    IF definitionKind = "INPUT_OBJECT" /\ field.Type.NonNull
    THEN AddError(rep,
           MkError("InvalidInput",
             "input fields using the @replaces directive must be nullable",
             <<typeName, field.Name>>))
    ELSE rep

\* TreatZeroCheck reading the value of treatZeroAsUnset in place of its
\* presence
TreatZeroCheckByValue(rep, typeName, definitionKind, field, replaceInfo) ==
    IF /\ definitionKind = "INPUT_OBJECT"
       /\ _isNonListField(field)
       /\ ~replaceInfo.TreatZeroAsUnset
    THEN AddError(rep,
           MkError("InvalidInput",
             "@replaces directive on non-list input fields must include treatZeroAsUnset:true or treatZeroAsUnset:false",
             <<typeName, field.Name>>))
    ELSE rep

TreatZeroCheck(rep, typeName, definitionKind, field, replaceInfo) ==
    IF /\ definitionKind = "INPUT_OBJECT"
       /\ _isNonListField(field)
       /\ ~replaceInfo.TreatZeroAsUnsetPresent
    THEN AddError(rep,
           MkError("InvalidInput",
             "@replaces directive on non-list input fields must include treatZeroAsUnset:true or treatZeroAsUnset:false",
             <<typeName, field.Name>>))
    ELSE rep

\* _processField, field with marker: the field is recorded
RecordField(rep, typeName, field, replaceInfo) ==
    [rep EXCEPT !.fields =
        MapPut(@, typeName,
               Append(SliceAt(@, typeName),
                      [field |-> field,
                       oldName |-> replaceInfo.OldName,
                       oldTypeName |-> replaceInfo.OldTypeName]))]

\* _processField after its call of getReplaceInfo
ProcessFieldWith(got, typeName, definitionKind, field) ==
    IF ~got.ok THEN CheckArguments(got.rep, typeName, field, 1)
    ELSE RecordField(
           TreatZeroCheck(NullableCheck(got.rep, typeName, definitionKind, field),
                          typeName, definitionKind, field, got.info),
           typeName, field, got.info)

_processField(rep, typeName, definitionKind, field) ==
    ProcessFieldWith(getReplaceInfo(rep, field.Directives), typeName, definitionKind, field)

\* NameOnlyCheck without the error
NameOnlyCheckSkipped(rep, replaceInfo, message, where) == rep

\* the check that a marker on a definition or an enum value names no type
\* (the messages of these two errors are written here without the
\* backquotes the code puts around the word name)
NameOnlyCheck(rep, replaceInfo, message, where) ==
    IF replaceInfo.OldTypeName # <<>>
    THEN AddError(rep, MkError("InvalidInput", message, where))
    ELSE rep

RecordEnumValue(rep, enumName, enumValue, replaceInfo) ==
    [rep EXCEPT !.enumValues =
        MapPut(@, enumName,
               Append(SliceAt(@, enumName),
                      [enumValue |-> enumValue,
                       newName |-> enumValue.Name,
                       oldName |-> replaceInfo.OldName]))]

\* _processEnumValue after its call of getReplaceInfo
ProcessEnumValueWith(got, enumName, enumValue) ==
    IF ~got.ok THEN got.rep
    ELSE RecordEnumValue(
           NameOnlyCheck(got.rep, got.info,
               "@replaces directive on enum values can only use name argument",
               <<enumName, enumValue.Name>>),
           enumName, enumValue, got.info)

_processEnumValue(rep, enumName, enumValue) ==
    ProcessEnumValueWith(getReplaceInfo(rep, enumValue.Directives), enumName, enumValue)

\* the "fields" arguments of the @key directives of a definition, in order
RECURSIVE KeysOfArguments(_, _)
KeysOfArguments(args, i) ==
    IF i > Len(args) THEN <<>>
    ELSE (IF args[i].Name = "fields" THEN <<args[i].Raw>> ELSE <<>>)
         \o KeysOfArguments(args, i + 1)

RECURSIVE KeysOfDirectives(_, _)
KeysOfDirectives(directives, i) ==
    IF i > Len(directives) THEN <<>>
    ELSE (IF directives[i].Name = "key"
          THEN KeysOfArguments(directives[i].Arguments, 1) ELSE <<>>)
         \o KeysOfDirectives(directives, i + 1)

_getFederationKeys(def) == KeysOfDirectives(def.Directives, 1)

RecordDefinition(rep, def, replaceInfo) ==
    [rep EXCEPT
       !.definitions = Append(@, [definition |-> def.Name,
                                  oldName |-> replaceInfo.OldName]),
       !.cacheReplacedTypes = MapPut(@, def.Name, replaceInfo.OldName)]

\* _processDefinition after its call of getReplaceInfo
ProcessDefinitionWith(got, def) ==
    IF ~got.ok THEN got.rep
    ELSE RecordDefinition(
           NameOnlyCheck(got.rep, got.info,
               "@replaces directive on definitions can only use name argument",
               <<def.Name>>),
           def, got.info)

_processDefinition(rep, def) ==
    ProcessDefinitionWith(
        getReplaceInfo(
            [rep EXCEPT
               !.definitionKinds = MapPut(@, def.Name, def.Kind),
               !.federationKeys = MapPut(@, def.Name, _getFederationKeys(def))],
            def.Directives),
        def)

_processInterfaceImplementation(rep, objectName, interfaceName) ==
    IF ~HasKey(rep.cacheReplacedTypes, interfaceName) THEN rep
    ELSE [rep EXCEPT !.extraImplements =
            MapPut(@, objectName,
                   Append(SliceAt(@, objectName), rep.cacheReplacedTypes[interfaceName]))]

_processUnionMember(rep, unionName, memberName) ==
    IF ~HasKey(rep.cacheReplacedTypes, memberName) THEN rep
    ELSE [rep EXCEPT !.extraUnionMembers =
            MapPut(@, unionName,
                   Append(SliceAt(@, unionName), rep.cacheReplacedTypes[memberName]))]

RECURSIVE ProcessFields(_, _, _)
ProcessFields(rep, def, i) ==
    IF i > Len(def.Fields) THEN rep
    ELSE ProcessFields(_processField(rep, def.Name, def.Kind, def.Fields[i]), def, i + 1)

RECURSIVE ProcessEnumValues(_, _, _)
ProcessEnumValues(rep, def, i) ==
    IF i > Len(def.EnumValues) THEN rep
    ELSE ProcessEnumValues(_processEnumValue(rep, def.Name, def.EnumValues[i]), def, i + 1)

\* the switch of the first loop of processSchema
FirstPassSwitch(rep, def) ==
    IF def.Kind \in {"OBJECT", "INPUT_OBJECT", "INTERFACE"} THEN ProcessFields(rep, def, 1)
    ELSE IF def.Kind = "ENUM" THEN ProcessEnumValues(rep, def, 1)
    ELSE rep

\* FirstPassBody that stops at the first definition found with errors behind it
FirstPassBodyUntilError(rep, def) ==
    IF rep.errors # <<>> THEN rep
    ELSE FirstPassSwitch(_processDefinition(rep, def), def)

\* the body of the first loop of processSchema, for one definition
FirstPassBody(rep, def) == FirstPassSwitch(_processDefinition(rep, def), def)

RECURSIVE ProcessInterfaces(_, _, _)
ProcessInterfaces(rep, def, i) ==
    IF i > Len(def.Interfaces) THEN rep
    ELSE ProcessInterfaces(
           _processInterfaceImplementation(rep, def.Name, def.Interfaces[i]), def, i + 1)

RECURSIVE ProcessMembers(_, _, _)
ProcessMembers(rep, def, i) ==
    IF i > Len(def.Types) THEN rep
    ELSE ProcessMembers(_processUnionMember(rep, def.Name, def.Types[i]), def, i + 1)

\* SecondPassBody that passes over the objects
SecondPassBodyUnionsOnly(rep, def) ==
    IF def.Kind = "UNION" THEN ProcessMembers(rep, def, 1) ELSE rep

\* the body of the second loop of processSchema, for one definition
SecondPassBody(rep, def) ==
    IF def.Kind = "OBJECT" THEN ProcessInterfaces(rep, def, 1)
    ELSE IF def.Kind = "UNION" THEN ProcessMembers(rep, def, 1)
    ELSE rep

-----------------------------------------------------------------------------
(* Text utilities of the synthesis *)

sDeprecated == <<"D","e","p","r","e","c","a","t","e","d">>
sReplacedBy == <<"R","e","p","l","a","c","e","d"," ","b","y"," ">>
sColonSpace == <<":"," ">>
sDot == <<".">>
sNewline == <<"\n">>
sExtend == <<"e","x","t","e","n","d">>

\* fmt.Sprintf("Replaced by %s.", name)
ReplacedByMessage(name) == sReplacedBy \o name \o sDot

\* fmt.Sprintf("Deprecated: Replaced by %s.", name)
DeprecatedMessage(name) == sDeprecated \o sColonSpace \o ReplacedByMessage(name)

\* _updateType without the descent into the element type of a list
_updateTypeOuter(typ, newTypeName) ==
    [NamedType |-> newTypeName, Elem |-> <<>>, NonNull |-> typ.NonNull]

RECURSIVE _updateType(_, _)
_updateType(typ, newTypeName) ==
    IF typ.NamedType # <<>>
    THEN [NamedType |-> newTypeName, Elem |-> <<>>, NonNull |-> typ.NonNull]
    ELSE [NamedType |-> <<>>,
          Elem |-> <<_updateType(typ.Elem[1], newTypeName)>>,
          NonNull |-> typ.NonNull]

\* A list without directives is nil as the parser leaves it; the lists of the
\* schemas below never reach the call as an empty list that is not nil.
_removeReplacesDirective(directives) ==
    SelectSeq(directives, LAMBDA d : d.Name # "replaces")

_addDeprecatedDirective(directives, message) ==
    Append(directives, Directive("deprecated", <<Argument("reason", message)>>))

\* bytes of the definition's source the look-back window covers
prefixLength == 25

ExtendWindow(def) ==
    LET start  == def.Position.Start
        from   == IF start - prefixLength < 0 THEN 0 ELSE start - prefixLength
        length == IF start - prefixLength < 0
                  THEN prefixLength + (start - prefixLength) ELSE prefixLength
    IN SubSeq(def.Position.Input, from + 1, from + length)

\* _extendRegex `\bextend[ \t]+\w+\s+$` finds a match in s: "extend" at bytes
\* p..p+5, blanks up to byte a-1, a word at a..b-1 and white space from b on
MatchesExtend(s) ==
    \E p \in 1..Len(s) :
        /\ p + 5 <= Len(s)
        /\ SubSeq(s, p, p + 5) = sExtend
        /\ IsBoundary(s, p - 1)
        /\ \E a \in (p + 7)..Len(s) : \E b \in (a + 1)..Len(s) :
              /\ \A i \in (p + 6)..(a - 1) : s[i] \in {" ", "\t"}
              /\ \A i \in a..(b - 1) : IsWordChar(s[i])
              /\ \A i \in b..Len(s) : s[i] \in {" ", "\t", "\n"}

\* _definitionHasExtends that looks for the word extend anywhere in the window
_definitionHasExtendsAnywhere(def) ==
    \E p \in 1..Len(ExtendWindow(def)) :
        /\ p + 5 <= Len(ExtendWindow(def))
        /\ SubSeq(ExtendWindow(def), p, p + 5) = sExtend

_definitionHasExtends(def) == MatchesExtend(ExtendWindow(def))

\* ast.Definition{Kind: kind, Name: name}
BlankDefinition(kindOf, name) ==
    [Kind |-> kindOf, Name |-> name, Description |-> <<>>, Directives |-> <<>>,
     Interfaces |-> <<>>, Fields |-> <<>>, Types |-> <<>>, EnumValues |-> <<>>,
     Position |-> [Start |-> 0, Input |-> <<>>]]

\* What FormatDefinition writes for a definition: the keyword "extend" when
\* asked for, the description unless it is an extension, and the definition's
\* kind, name, interfaces, directives, union members, fields and enum values.
FormatDefinition(def, extend) ==
    [Extend |-> extend,
     Description |-> IF extend THEN <<>> ELSE def.Description,
     Kind |-> def.Kind, Name |-> def.Name, Interfaces |-> def.Interfaces,
     Directives |-> def.Directives, Types |-> def.Types,
     Fields |-> def.Fields, EnumValues |-> def.EnumValues]

\* strings.ReplaceAll(s, "\t", "    ")
RECURSIVE TabsToSpaces(_)
TabsToSpaces(s) ==
    IF s = <<>> THEN <<>>
    ELSE (IF Head(s) = "\t" THEN <<" ", " ", " ", " ">> ELSE <<Head(s)>>)
         \o TabsToSpaces(Tail(s))

\* the tabs of a written block are those of its descriptions
BlockTabsToSpaces(b) ==
    [b EXCEPT
       !.Description = TabsToSpaces(@),
       !.Fields = [i \in DOMAIN @ |->
                     [@[i] EXCEPT !.Description = TabsToSpaces(@)]],
       !.EnumValues = [i \in DOMAIN @ |->
                     [@[i] EXCEPT !.Description = TabsToSpaces(@)]]]

AllTabsToSpaces(out) == [i \in DOMAIN out |-> BlockTabsToSpaces(out[i])]

\* sort.Slice(r.definitions, by oldName): an insertion sort below 12 elements
RECURSIVE InsertByOldName(_, _)
InsertByOldName(sorted, x) ==
    IF sorted = <<>> THEN <<x>>
    ELSE IF LessStr(x.oldName, sorted[Len(sorted)].oldName)
         THEN Append(InsertByOldName(SubSeq(sorted, 1, Len(sorted) - 1), x),
                     sorted[Len(sorted)])
         ELSE Append(sorted, x)

\* SortByOldName that keeps the order of the first pass
SortByOldNameKept(defs) == defs

RECURSIVE SortByOldName(_)
SortByOldName(defs) ==
    IF defs = <<>> THEN <<>>
    ELSE InsertByOldName(SortByOldName(SubSeq(defs, 1, Len(defs) - 1)), defs[Len(defs)])

-----------------------------------------------------------------------------
(* The Replacer: overlay synthesis, stage by stage.  A stage takes and      *)
(* returns the part of the program state it works on.                      *)

\* ShadowArguments that leaves the arguments as they are
ShadowArgumentsKept(args) == args

\* the loops that clear @replaces on the fields and arguments of a shadow
ShadowArguments(args) ==
    [j \in DOMAIN args |->
        [args[j] EXCEPT !.Directives = _removeReplacesDirective(@)]]

ShadowFields(fields) ==
    [i \in DOMAIN fields |->
        [fields[i] EXCEPT !.Directives = _removeReplacesDirective(@),
                          !.Arguments = ShadowArguments(@)]]

ShadowEnumValues(enumValues) ==
    [i \in DOMAIN enumValues |->
        [enumValues[i] EXCEPT !.Directives = _removeReplacesDirective(@)]]

\* ShadowDescription that drops the description of the source
ShadowDescriptionAlone(def, hasExtend) ==
    IF ~hasExtend THEN DeprecatedMessage(def.Name) ELSE <<>>

ShadowDescription(def, hasExtend) ==
    IF def.Description = <<>>
    THEN (IF ~hasExtend THEN DeprecatedMessage(def.Name) ELSE <<>>)
    ELSE def.Description \o sNewline \o DeprecatedMessage(def.Name)

\* oldDefinition at the end of a round of the definitions loop
OldDefinition(def, oldName, hasExtend) ==
    [def EXCEPT !.Description = ShadowDescription(def, hasExtend),
                !.Name = oldName,
                !.Directives = _removeReplacesDirective(@),
                !.Fields = ShadowFields(@),
                !.EnumValues = ShadowEnumValues(@)]

\* A round of the definitions loop.  oldDefinition is a copy of the struct,
\* so its EnumValues slice shares its array with the schema's definition:
\* the loop over the enum values stores into both.
WriteShadow(st, definitionInfo, def, hasExtend) ==
    [schema |-> [st.schema EXCEPT
                   ![definitionInfo.definition].EnumValues = ShadowEnumValues(@)],
     buf |-> Append(st.buf,
                FormatDefinition(OldDefinition(def, definitionInfo.oldName, hasExtend),
                                 hasExtend))]

DefinitionBody(st, definitionInfo) ==
    WriteShadow(st, definitionInfo, st.schema[definitionInfo.definition],
                _definitionHasExtends(st.schema[definitionInfo.definition]))

RECURSIVE DefinitionLoop(_, _, _)
DefinitionLoop(st, definitions, i) ==
    IF i > Len(definitions) THEN st
    ELSE DefinitionLoop(DefinitionBody(st, definitions[i]), definitions, i + 1)

\* the loop over the keys for one renamed field: keys are rewritten in place
RewriteKeys(ks, fieldInfo) ==
    [keys |-> [i \in DOMAIN ks.keys |->
                 IF _containsExactWord(ks.keys[i], fieldInfo.field.Name)
                 THEN _replaceExactWord(ks.keys[i], fieldInfo.field.Name, fieldInfo.oldName)
                 ELSE ks.keys[i]],
     keyHasUpdates |-> [i \in DOMAIN ks.keys |->
                 \/ ks.keyHasUpdates[i]
                 \/ _containsExactWord(ks.keys[i], fieldInfo.field.Name)]]

\* oldArgument at the end of a round of the arguments loop
OldArgument(got, argument) ==
    IF ~got.ok THEN argument
    ELSE [argument EXCEPT
            !.Name = got.info.OldName,
            !.Directives = _removeReplacesDirective(@),
            !.Type = IF got.info.OldTypeName # <<>>
                     THEN _updateType(argument.Type, got.info.OldTypeName)
                     ELSE @]

AddOldArgument(acc, got, argument) ==
    [rep |-> got.rep, arguments |-> Append(acc.arguments, OldArgument(got, argument))]

\* the loop that applies the argument renames of one renamed field:
\* acc is [rep, arguments]
RECURSIVE OldArguments(_, _, _)
OldArguments(acc, arguments, i) ==
    IF i > Len(arguments) THEN acc
    ELSE OldArguments(
           AddOldArgument(acc, getReplaceInfo(acc.rep, arguments[i].Directives),
                          arguments[i]),
           arguments, i + 1)

GoFieldDirective(oldName) ==
    Directive("goField", <<Argument("name", sDeprecated \o Title(oldName))>>)

\* OldFieldDirectives that adds @deprecated whatever the kind of the owner
OldFieldDirectivesAnyKind(definitionKind, field) ==
    _addDeprecatedDirective(_removeReplacesDirective(field.Directives),
                            ReplacedByMessage(field.Name))

\* @deprecated is not valid on input fields: they are deprecated in their
\* description
OldFieldDirectives(definitionKind, field) ==
    IF definitionKind # "INPUT_OBJECT"
    THEN _addDeprecatedDirective(_removeReplacesDirective(field.Directives),
                                 ReplacedByMessage(field.Name))
    ELSE _removeReplacesDirective(field.Directives)

OldFieldDescription(definitionKind, field) ==
    IF definitionKind # "INPUT_OBJECT" THEN field.Description
    ELSE IF field.Description = <<>>
         THEN sDeprecated \o sColonSpace \o ReplacedByMessage(field.Name)
         ELSE field.Description \o sNewline \o sDeprecated \o sColonSpace
              \o ReplacedByMessage(field.Name)

\* oldField once its arguments are built
BuildOldField(args, definitionKind, fieldInfo) ==
    [rep |-> args.rep,
     field |-> [fieldInfo.field EXCEPT
                  !.Name = fieldInfo.oldName,
                  !.Type = IF fieldInfo.oldTypeName # <<>>
                           THEN _updateType(@, fieldInfo.oldTypeName)
                           ELSE @,
                  !.Arguments = args.arguments,
                  !.Description = OldFieldDescription(definitionKind, fieldInfo.field),
                  !.Directives = Append(OldFieldDirectives(definitionKind, fieldInfo.field),
                                        GoFieldDirective(fieldInfo.oldName))]]

\* the old field built for one renamed field of a type of the given kind
OldField(rep, definitionKind, fieldInfo) ==
    BuildOldField(
        OldArguments([rep |-> rep, arguments |-> <<>>], fieldInfo.field.Arguments, 1),
        definitionKind, fieldInfo)

AddOldField(acc, built, fieldInfo) ==
    [rep |-> built.rep,
     ks |-> RewriteKeys(acc.ks, fieldInfo),
     fields |-> Append(acc.fields, built.field)]

\* the loop over the renamed fields of one type, for one of its names:
\* acc is [rep, ks, fields]
RECURSIVE OldFieldsLoop(_, _, _, _)
OldFieldsLoop(acc, definitionKind, fields, i) ==
    IF i > Len(fields) THEN acc
    ELSE OldFieldsLoop(
           AddOldField(acc, OldField(acc.rep, definitionKind, fields[i]), fields[i]),
           definitionKind, fields, i + 1)

\* the @key directives added to a type extension: the keys with updates
RECURSIVE UpdatedKeyDirectives(_, _)
UpdatedKeyDirectives(ks, i) ==
    IF i > Len(ks.keys) THEN <<>>
    ELSE (IF ks.keyHasUpdates[i]
          THEN <<Directive("key", <<Argument("fields", ks.keys[i])>>)>> ELSE <<>>)
         \o UpdatedKeyDirectives(ks, i + 1)

\* the type extension written once the old fields are built
WriteExtension(acc, done, definitionKind, objectName) ==
    [rep |-> done.rep,
     ks |-> done.ks,
     buf |-> Append(acc.buf,
                FormatDefinition(
                    [BlankDefinition(definitionKind, objectName) EXCEPT
                       !.Fields = done.fields,
                       !.Directives = UpdatedKeyDirectives(done.ks, 1)],
                    TRUE))]

\* the loop over allObjectNames of one type: acc is [rep, ks, buf]; the keys
\* and their update flags are shared by the rounds
RECURSIVE ObjectNamesLoop(_, _, _, _)
ObjectNamesLoop(acc, newObjectName, allObjectNames, i) ==
    IF i > Len(allObjectNames) THEN acc
    ELSE ObjectNamesLoop(
           WriteExtension(acc,
               OldFieldsLoop([rep |-> acc.rep, ks |-> acc.ks, fields |-> <<>>],
                             acc.rep.definitionKinds[newObjectName],
                             acc.rep.fields[newObjectName], 1),
               acc.rep.definitionKinds[newObjectName],
               allObjectNames[i]),
           newObjectName, allObjectNames, i + 1)

\* AllNames without the old name of a renamed type
AllNamesNewOnly(rep, newName) == <<newName>>

\* new name, followed by the old name when the type is renamed too
AllNames(rep, newName) ==
    IF HasKey(rep.cacheReplacedTypes, newName)
    THEN <<newName, rep.cacheReplacedTypes[newName]>>
    ELSE <<newName>>

\* keys := copy of r.federationKeys[name]; keyHasUpdates := all false
CopyKeys(keys) == [keys |-> keys, keyHasUpdates |-> [i \in DOMAIN keys |-> FALSE]]

\* the body of the field updates loop for one type: st is [rep, ks, buf]
FieldUpdatesBody(st, newObjectName) ==
    ObjectNamesLoop(
        [rep |-> st.rep,
         ks |-> CopyKeys(SliceAt(st.rep.federationKeys, newObjectName)),
         buf |-> st.buf],
        newObjectName, AllNames(st.rep, newObjectName), 1)

RECURSIVE FieldUpdatesLoop(_, _, _)
FieldUpdatesLoop(st, names, i) ==
    IF i > Len(names) THEN st
    ELSE FieldUpdatesLoop(FieldUpdatesBody(st, names[i]), names, i + 1)

\* the old enum values written into one enum extension
\* OldEnumValues that leaves out @deprecated
OldEnumValuesPlain(enumValues) ==
    [i \in DOMAIN enumValues |->
        [enumValues[i].enumValue EXCEPT
           !.Name = enumValues[i].oldName,
           !.Directives = _removeReplacesDirective(@)]]

OldEnumValues(enumValues) ==
    [i \in DOMAIN enumValues |->
        [enumValues[i].enumValue EXCEPT
           !.Name = enumValues[i].oldName,
           !.Directives = _addDeprecatedDirective(
                             _removeReplacesDirective(@),
                             ReplacedByMessage(enumValues[i].newName))]]

\* the blocks written for one owner under each of its names
ExtensionBlocks(names, template) ==
    [i \in DOMAIN names |->
        FormatDefinition([template EXCEPT !.Name = names[i]], TRUE)]

EnumUpdatesBody(rep, out, newName) ==
    out \o ExtensionBlocks(AllNames(rep, newName),
              [BlankDefinition("ENUM", newName) EXCEPT
                 !.EnumValues = OldEnumValues(rep.enumValues[newName])])

InterfaceUpdatesBody(rep, out, newName) ==
    out \o ExtensionBlocks(AllNames(rep, newName),
              [BlankDefinition("OBJECT", newName) EXCEPT
                 !.Interfaces = rep.extraImplements[newName]])

UnionUpdatesBody(rep, out, newName) ==
    out \o ExtensionBlocks(AllNames(rep, newName),
              [BlankDefinition("UNION", newName) EXCEPT
                 !.Types = rep.extraUnionMembers[newName]])

RECURSIVE EnumUpdatesLoop(_, _, _, _)
EnumUpdatesLoop(rep, out, names, i) ==
    IF i > Len(names) THEN out
    ELSE EnumUpdatesLoop(rep, EnumUpdatesBody(rep, out, names[i]), names, i + 1)

RECURSIVE InterfaceUpdatesLoop(_, _, _, _)
InterfaceUpdatesLoop(rep, out, names, i) ==
    IF i > Len(names) THEN out
    ELSE InterfaceUpdatesLoop(rep, InterfaceUpdatesBody(rep, out, names[i]), names, i + 1)

RECURSIVE UnionUpdatesLoop(_, _, _, _)
UnionUpdatesLoop(rep, out, names, i) ==
    IF i > Len(names) THEN out
    ELSE UnionUpdatesLoop(rep, UnionUpdatesBody(rep, out, names[i]), names, i + 1)

-----------------------------------------------------------------------------
(* The calls.  A caller holds one parsed schema and calls                   *)
(* GetReplacesDirectiveUpdates or ValidateReplacesDirectives on it; every   *)
(* call builds its own Replacer.  schema.Types is a Go map: each range over *)
(* it visits the definitions in an order of its own.                       *)

NoError == [failed |-> FALSE, errorlist |-> <<>>]

\* errors.WrapWithFields(kind.InvalidInput, {"errorlist": r.errors})
WrapErrors(errorlist) == [failed |-> TRUE, errorlist |-> errorlist]

\* NewReplacer() and the guard at the head of processSchema
Call(m) ==
    /\ pc = "idle"
    /\ Len(results) < MaxRuns
    /\ mode' = m
    /\ r' = [NewReplacer EXCEPT !.hasProcessedSchema = TRUE]
    /\ todo' = DOMAIN schema
    /\ buf' = <<>>
    /\ errsAtSynth' = -1
    /\ pc' = "first"
    /\ input' = schema
    /\ UNCHANGED <<parsed, schema, results,
                   query, returned>>

\* one round of the first loop of processSchema
FirstPass ==
    /\ pc = "first"
    /\ \E name \in todo :
          /\ r' = FirstPassBody(r, schema[name])
          /\ todo' = todo \ {name}
    /\ UNCHANGED <<parsed, input, schema, pc, mode, buf, errsAtSynth, results,
                   query, returned>>

FirstPassDone ==
    /\ pc = "first"
    /\ todo = {}
    /\ todo' = DOMAIN schema
    /\ pc' = "second"
    /\ UNCHANGED <<parsed, input, schema, mode, r, buf, errsAtSynth, results,
                   query, returned>>

\* one round of the second loop of processSchema
SecondPass ==
    /\ pc = "second"
    /\ \E name \in todo :
          /\ r' = SecondPassBody(r, schema[name])
          /\ todo' = todo \ {name}
    /\ UNCHANGED <<parsed, input, schema, pc, mode, buf, errsAtSynth, results,
                   query, returned>>

\* processSchema returns: ValidateReplacesDirectives goes on to its result,
\* GetReplacesDirectiveUpdates calls getSchemaAdditions
SecondPassDone ==
    /\ pc = "second"
    /\ todo = {}
    /\ pc' = IF mode = "validate" THEN "return" ELSE "definitions"
    /\ UNCHANGED <<parsed, input, schema, mode, todo, r, buf, errsAtSynth, results,
                   query, returned>>

\* getSchemaAdditions up to the end of the definitions loop
DefinitionUpdates ==
    /\ pc = "definitions"
    /\ r.hasProcessedSchema
    /\ r' = [r EXCEPT !.definitions = SortByOldName(@)]
    /\ \E done \in {DefinitionLoop([schema |-> schema, buf |-> buf],
                                   SortByOldName(r.definitions), 1)} :
          /\ schema' = done.schema
          /\ buf' = done.buf
    /\ errsAtSynth' = Len(r.errors)
    /\ pc' = "fields"
    /\ UNCHANGED <<parsed, input, mode, todo, results,
                   query, returned>>

FieldUpdates ==
    /\ pc = "fields"
    /\ \E done \in {FieldUpdatesLoop([rep |-> r, ks |-> CopyKeys(<<>>), buf |-> buf],
                                     SortStrings(DOMAIN r.fields), 1)} :
          /\ r' = done.rep
          /\ buf' = done.buf
    /\ pc' = "enums"
    /\ UNCHANGED <<parsed, input, schema, mode, todo, errsAtSynth, results,
                   query, returned>>

EnumValueUpdates ==
    /\ pc = "enums"
    /\ buf' = EnumUpdatesLoop(r, buf, SortStrings(DOMAIN r.enumValues), 1)
    /\ pc' = "interfaces"
    /\ UNCHANGED <<parsed, input, schema, mode, todo, r, errsAtSynth, results,
                   query, returned>>

InterfaceUpdates ==
    /\ pc = "interfaces"
    /\ buf' = InterfaceUpdatesLoop(r, buf, SortStrings(DOMAIN r.extraImplements), 1)
    /\ pc' = "unions"
    /\ UNCHANGED <<parsed, input, schema, mode, todo, r, errsAtSynth, results,
                   query, returned>>

\* the union loop and the return of getSchemaAdditions: buf then holds the
\* returned additions
UnionUpdates ==
    /\ pc = "unions"
    /\ buf' = AllTabsToSpaces(
                 UnionUpdatesLoop(r, buf, SortStrings(DOMAIN r.extraUnionMembers), 1))
    /\ pc' = "return"
    /\ UNCHANGED <<parsed, input, schema, mode, todo, r, errsAtSynth, results,
                   query, returned>>

\* UpdatesResult without the check of r.errors clearing the text
UpdatesResultPartial(rep, additions) ==
    [text |-> additions,
     err |-> IF Len(rep.errors) > 0 THEN WrapErrors(rep.errors) ELSE NoError]

\* what GetReplacesDirectiveUpdates returns once getSchemaAdditions is back
UpdatesResult(rep, additions) ==
    IF Len(rep.errors) > 0
    THEN [text |-> <<>>, err |-> WrapErrors(rep.errors)]
    ELSE [text |-> additions, err |-> NoError]

\* what ValidateReplacesDirectives returns once processSchema is back
ValidateResult(rep) ==
    IF Len(rep.errors) > 0 THEN WrapErrors(rep.errors) ELSE NoError

\* the tail of GetReplacesDirectiveUpdates and of ValidateReplacesDirectives
Return ==
    /\ pc = "return"
    /\ results' = Append(results,
          [mode |-> mode, input |-> input,
           text |-> IF mode = "updates" THEN UpdatesResult(r, buf).text ELSE <<>>,
           err |-> IF mode = "updates" THEN UpdatesResult(r, buf).err
                   ELSE ValidateResult(r)])
    /\ pc' = "idle"
    /\ UNCHANGED <<parsed, input, schema, mode, todo, r, buf, errsAtSynth,
                   query, returned>>

\* the caller parses the same source text again
Reparse ==
    /\ pc = "idle"
    /\ results # <<>>
    /\ Len(results) < MaxRuns
    /\ schema' = parsed
    /\ UNCHANGED <<parsed, input, pc, mode, todo, r, buf, errsAtSynth, results,
                   query, returned>>

Next ==
    \/ \E m \in {"updates", "validate"} : Call(m)
    \/ FirstPass
    \/ FirstPassDone
    \/ SecondPass
    \/ SecondPassDone
    \/ DefinitionUpdates
    \/ FieldUpdates
    \/ EnumValueUpdates
    \/ InterfaceUpdates
    \/ UnionUpdates
    \/ Return
    \/ Reparse

-----------------------------------------------------------------------------
(* The methods of one Replacer, called in any order *)

\* calls made on the Replacer
MaxCalls == 3

sProcessedTwice == "processSchema called multiple times"
sNotProcessed == "must call processSchema before getSchemaAdditions"

\* the orders a range over a map with these keys can take
Orders(keys) ==
    { order \in [1..Cardinality(keys) -> keys] :
        \A i, j \in 1..Cardinality(keys) : order[i] = order[j] => i = j }

\* the first loop of processSchema, over schema.Types in the given order
RECURSIVE FirstLoop(_, _, _, _)
FirstLoop(rep, types, order, i) ==
    IF i > Len(order) THEN rep
    ELSE FirstLoop(FirstPassBody(rep, types[order[i]]), types, order, i + 1)

\* the second loop of processSchema
RECURSIVE SecondLoop(_, _, _, _)
SecondLoop(rep, types, order, i) ==
    IF i > Len(order) THEN rep
    ELSE SecondLoop(SecondPassBody(rep, types[order[i]]), types, order, i + 1)

\* processSchema without the check of hasProcessedSchema
processSchemaUnguarded(rep, types, first, second) ==
    SecondLoop(FirstLoop([rep EXCEPT !.hasProcessedSchema = TRUE], types, first, 1),
               types, second, 1)

\* processSchema, with the orders its two ranges over schema.Types take
processSchema(rep, types, first, second) ==
    IF rep.hasProcessedSchema
    THEN AddError(rep, MkError("Internal", sProcessedTwice, <<>>))
    ELSE SecondLoop(FirstLoop([rep EXCEPT !.hasProcessedSchema = TRUE], types, first, 1),
                    types, second, 1)

\* getSchemaAdditions from the enum loop to its return
AdditionsAfterFields(types, done) ==
    [rep |-> done.rep, schema |-> types,
     text |-> AllTabsToSpaces(
                UnionUpdatesLoop(done.rep,
                  InterfaceUpdatesLoop(done.rep,
                    EnumUpdatesLoop(done.rep, done.buf,
                                    SortStrings(DOMAIN done.rep.enumValues), 1),
                    SortStrings(DOMAIN done.rep.extraImplements), 1),
                  SortStrings(DOMAIN done.rep.extraUnionMembers), 1))]

\* getSchemaAdditions from the field loop on
AdditionsAfterDefinitions(rep, done) ==
    AdditionsAfterFields(done.schema,
        FieldUpdatesLoop([rep |-> rep, ks |-> CopyKeys(<<>>), buf |-> done.buf],
                         SortStrings(DOMAIN rep.fields), 1))

\* getSchemaAdditions: the Replacer and the schema as the call leaves them,
\* and the returned text
getSchemaAdditions(rep, types) ==
    IF ~rep.hasProcessedSchema
    THEN [rep |-> AddError(rep, MkError("Internal", sNotProcessed, <<>>)),
          schema |-> types, text |-> <<>>]
    ELSE AdditionsAfterDefinitions(
           [rep EXCEPT !.definitions = SortByOldName(@)],
           DefinitionLoop([schema |-> types, buf |-> <<>>],
                          SortByOldName(rep.definitions), 1))

\* r.processSchema(schema); results notes the call and the Replacer before it
ProcessSchemaCall ==
    /\ pc = "idle"
    /\ Len(results) < MaxCalls
    /\ \E first \in Orders(DOMAIN schema) : \E second \in Orders(DOMAIN schema) :
          r' = processSchema(r, schema, first, second)
    /\ results' = Append(results,
          [mode |-> "processSchema", input |-> schema, before |-> r, text |-> <<>>])
    /\ UNCHANGED <<parsed, schema, input, pc, mode, todo, buf, errsAtSynth,
                   query, returned>>

\* r.getSchemaAdditions()
GetSchemaAdditionsCall ==
    /\ pc = "idle"
    /\ Len(results) < MaxCalls
    /\ \E done \in {getSchemaAdditions(r, schema)} :
          /\ r' = done.rep
          /\ schema' = done.schema
          /\ buf' = done.text
          /\ results' = Append(results,
                [mode |-> "getSchemaAdditions", input |-> schema, before |-> r,
                 text |-> done.text])
    /\ UNCHANGED <<parsed, input, pc, mode, todo, errsAtSynth, query, returned>>

NextReplacer ==
    \/ ProcessSchemaCall
    \/ GetSchemaAdditionsCall

-----------------------------------------------------------------------------
(* MetadataForOperation *)

\* OperationMetadata{}
NoMetadata ==
    [HasCanaryFields |-> FALSE, HasSideBySideFields |-> FALSE,
     HasMixedAliases |-> FALSE]

\* new(_aliasFields)
NewAliasFields == [aliasFields |-> <<>>, nonAliasFields |-> <<>>]

_hasCommonElement(a, b) == \E i \in DOMAIN b : \E j \in DOMAIN a : a[j] = b[i]

\* the loop over the arguments of a @migrate directive, up to its break: the
\* value of the first argument named state, as a sequence of length 0 or 1
RECURSIVE StateArgument(_, _)
StateArgument(arguments, i) ==
    IF i > Len(arguments) THEN <<>>
    ELSE IF arguments[i].Name = "state" THEN <<arguments[i].Raw>>
    ELSE StateArgument(arguments, i + 1)

\* isCanary and isSideBySide as declared
NoFlags == [isCanary |-> FALSE, isSideBySide |-> FALSE]

FlagsOfState(flags, state) ==
    IF state = <<>> THEN flags
    ELSE [isCanary |-> state[1] = "canary", isSideBySide |-> state[1] = "side-by-side"]

\* the body of the loop over the directives of the field's definition
MigrateFlags(flags, directive) ==
    IF directive.Name = "migrate"
    THEN FlagsOfState(flags, StateArgument(directive.Arguments, 1))
    ELSE flags

RECURSIVE FieldFlags(_, _, _)
FieldFlags(flags, directives, i) ==
    IF i > Len(directives) THEN flags
    ELSE FieldFlags(MigrateFlags(flags, directives[i]), directives, i + 1)

\* the field is recorded under its name, with the aliased or the plain fields
RecordAlias(aliasInfo, v) ==
    IF v.Alias # v.Name
    THEN [aliasInfo EXCEPT !.aliasFields = Append(@, v.Name)]
    ELSE [aliasInfo EXCEPT !.nonAliasFields = Append(@, v.Name)]

\* the three assignments to metadata in the case of a field
FieldMetadata(metadata, flags, subselectionMetadata) ==
    [HasSideBySideFields |-> \/ flags.isSideBySide
                             \/ metadata.HasSideBySideFields
                             \/ subselectionMetadata.HasSideBySideFields,
     HasCanaryFields |-> \/ metadata.HasCanaryFields
                         \/ flags.isCanary
                         \/ subselectionMetadata.HasCanaryFields,
     HasMixedAliases |-> \/ metadata.HasMixedAliases
                         \/ subselectionMetadata.HasMixedAliases]

\* the last assignment of processSelectionSetMetadata
WithMixedAliases(acc) ==
    [acc EXCEPT !.metadata.HasMixedAliases =
        @ \/ _hasCommonElement(acc.aliasInfo.aliasFields, acc.aliasInfo.nonAliasFields)]

\* processSelectionSetMetadata returns metadata and leaves what it appended
\* in *aliasInfo; acc is [metadata, aliasInfo]. What the calls made for a
\* fragment spread and for an inline fragment return is dropped: only
\* aliasInfo comes back from them.
RECURSIVE processSelectionSetMetadata(_, _)
RECURSIVE SelectionLoop(_, _, _)
RECURSIVE SelectionSwitch(_, _)

SelectionSwitch(acc, v) ==
    IF v.Kind = "Field"
    THEN [metadata |->
              FieldMetadata(acc.metadata,
                  FieldFlags(NoFlags, v.Definition.Directives, 1),
                  processSelectionSetMetadata(v.SelectionSet, NewAliasFields).metadata),
          aliasInfo |-> RecordAlias(acc.aliasInfo, v)]
    ELSE IF v.Kind = "FragmentSpread"
    THEN [metadata |-> acc.metadata,
          aliasInfo |->
              processSelectionSetMetadata(v.Definition.SelectionSet, acc.aliasInfo).aliasInfo]
    ELSE [metadata |-> acc.metadata,
          aliasInfo |->
              processSelectionSetMetadata(v.SelectionSet, acc.aliasInfo).aliasInfo]

SelectionLoop(acc, selectionSet, i) ==
    IF i > Len(selectionSet) THEN acc
    ELSE SelectionLoop(SelectionSwitch(acc, selectionSet[i]), selectionSet, i + 1)

processSelectionSetMetadata(selectionSet, aliasInfo) ==
    WithMixedAliases(
        SelectionLoop([metadata |-> NoMetadata, aliasInfo |-> aliasInfo],
                      selectionSet, 1))

\* query is what gqlparser.LoadQuery makes of the text: errList, or the
\* operations of the document
MetadataForOperation(q) ==
    IF q.errList THEN [metadata |-> NoMetadata, err |-> "errList"]
    ELSE IF Len(q.Operations) # 1
    THEN [metadata |-> NoMetadata,
          err |-> "each query must contain exactly one operation"]
    ELSE [metadata |->
              processSelectionSetMetadata(q.Operations[1].SelectionSet,
                                          NewAliasFields).metadata,
          err |-> "nil"]

\* the state before any query text is at hand
NoQuery == [errList |-> FALSE, Operations |-> <<>>]

\* a call of MetadataForOperation on the query text
MetadataCall ==
    /\ Len(returned) < 1
    /\ returned' = Append(returned, MetadataForOperation(query))
    /\ UNCHANGED <<parsed, schema, input, pc, mode, todo, r, buf, errsAtSynth,
                   results, query>>

NextMetadata == MetadataCall

-----------------------------------------------------------------------------
(* Schemas *)

Keyword(kindOf) ==
    CASE kindOf = "OBJECT" -> <<"t","y","p","e">>
      [] kindOf = "INPUT_OBJECT" -> <<"i","n","p","u","t">>
      [] kindOf = "INTERFACE" -> <<"i","n","t","e","r","f","a","c","e">>
      [] kindOf = "UNION" -> <<"u","n","i","o","n">>
      [] kindOf = "ENUM" -> <<"e","n","u","m">>
      [] OTHER -> <<"s","c","a","l","a","r">>

\* the source up to the definition's name, and the position of the name
PositionOf(kindOf, extend) ==
    LET text == <<"\n">> \o (IF extend THEN sExtend \o <<" ">> ELSE <<>>)
                \o Keyword(kindOf) \o <<" ">>
    IN [Start |-> Len(text), Input |-> text]

MkDef(kindOf, name, extend, description, directives) ==
    [BlankDefinition(kindOf, name) EXCEPT
       !.Description = description,
       !.Directives = directives,
       !.Position = PositionOf(kindOf, extend)]

MkField(name, type, arguments, directives) ==
    [Name |-> name, Description |-> <<>>, Arguments |-> arguments,
     Type |-> type, Directives |-> directives]

MkArg(name, type, directives) ==
    [Name |-> name, Description |-> <<>>, Type |-> type, Directives |-> directives]

MkEnumValue(name, directives) ==
    [Name |-> name, Description |-> <<>>, Directives |-> directives]

\* @replaces(name: ..., type: ..., treatZeroAsUnset: ...); an empty type and
\* an empty treatZeroAsUnset leave the argument out
Replaces(name, type, tzau) ==
    Directive("replaces",
        <<Argument("name", name)>>
        \o (IF type # <<>> THEN <<Argument("type", type)>> ELSE <<>>)
        \o (IF tzau # <<>> THEN <<Argument("treatZeroAsUnset", tzau)>> ELSE <<>>))

ReplacesName(name) == Replaces(name, <<>>, <<>>)

Key(fields) == Directive("key", <<Argument("fields", fields)>>)

Test == Directive("test", <<>>)

\* the sets of at most k definitions of a pool with different names
RECURSIVE UpTo(_, _)
UpTo(Pool, k) ==
    IF k = 0 THEN {{}}
    ELSE LET less == UpTo(Pool, k - 1)
         IN less \cup UNION { { S \cup {d} :
                                  d \in { e \in Pool : \A x \in S : x.Name # e.Name } } :
                              S \in less }

\* schema.Types of the schemas made of definitions of a pool
Schemas(Pool) ==
    { [n \in { d.Name : d \in S } |-> CHOOSE d \in S : d.Name = n] :
        S \in UpTo(Pool, MaxDefs) \ {{}} }

\* a Replacer is about to be made for one of the schemas of a set
InitFrom(schemas) ==
    /\ parsed \in schemas
    /\ schema = parsed
    /\ input = parsed
    /\ pc = "idle"
    /\ mode = "updates"
    /\ todo = {}
    /\ r = NewReplacer
    /\ buf = <<>>
    /\ errsAtSynth = -1
    /\ results = <<>>
    /\ query = NoQuery
    /\ returned = <<>>

InitWith(Pool) == InitFrom(Schemas(Pool))

-----------------------------------------------------------------------------
(* Names used by the schemas *)

nA == <<"A">>
nB == <<"B">>
nC == <<"C">>
nO == <<"O">>
nP == <<"P">>
tT == <<"T">>
tU == <<"U">>
fI == <<"i">>
fK == <<"k">>
fKv == <<"k", "v">>
fL == <<"l">>
fM == <<"m">>
fX == <<"x">>
aA == <<"a">>
aB == <<"b">>
aC == <<"c">>
vV == <<"V">>
vW == <<"W">>
vX == <<"X">>

\* "i k", "i kv" and "k"
kIK == <<"i", " ", "k">>
kIKv == <<"i", " ", "k", "v">>
kK == <<"k">>

-----------------------------------------------------------------------------
(* Spec: schemas mixing the kinds of definition and of marker *)

\* type A @replaces(name: "O") @test @key(fields: "i k") {
\*   i: T!   k: [T!]! @replaces(name: "l", type: "U") @test }
DefA1 ==
    [MkDef("OBJECT", nA, FALSE, <<>>, <<ReplacesName(nO), Test, Key(kIK)>>) EXCEPT
       !.Fields = <<MkField(fI, Named(tT, TRUE), <<>>, <<>>),
                    MkField(fK, ListOf(Named(tT, TRUE), TRUE), <<>>,
                            <<Replaces(fL, tU, <<>>), Test>>)>>]

\* type A @key(fields: "i kv") @key(fields: "k") {
\*   k: T @replaces(name: "l")   l: T @replaces(name: "m") }
DefA2 ==
    [MkDef("OBJECT", nA, FALSE, <<>>, <<Key(kIKv), Key(kK)>>) EXCEPT
       !.Fields = <<MkField(fK, Named(tT, FALSE), <<>>, <<ReplacesName(fL)>>),
                    MkField(fL, Named(tT, FALSE), <<>>, <<ReplacesName(fM)>>)>>]

\* interface A @replaces(name: "P") { k: T @replaces(name: "l") }
DefA3 ==
    [MkDef("INTERFACE", nA, FALSE, <<>>, <<ReplacesName(nP)>>) EXCEPT
       !.Fields = <<MkField(fK, Named(tT, FALSE), <<>>, <<ReplacesName(fL)>>)>>]

\* type B implements A @replaces(name: "O") { x(a: T @replaces(name: "b")): T }
DefB1 ==
    [MkDef("OBJECT", nB, FALSE, <<>>, <<ReplacesName(nO)>>) EXCEPT
       !.Interfaces = <<nA>>,
       !.Fields = <<MkField(fX, Named(tT, FALSE),
                            <<MkArg(aA, Named(tT, FALSE), <<ReplacesName(aB)>>)>>,
                            <<>>)>>]

\* "d" extend type B implements A @replaces(name: "P") {
\*   k(a: [T]! @replaces(name: "b", type: "U") @test, c: T): T @replaces(name: "l") }
DefB2 ==
    [MkDef("OBJECT", nB, TRUE, <<"d">>, <<ReplacesName(nP)>>) EXCEPT
       !.Interfaces = <<nA>>,
       !.Fields = <<MkField(fK, Named(tT, FALSE),
                            <<MkArg(aA, ListOf(Named(tT, FALSE), TRUE),
                                    <<Replaces(aB, tU, <<>>), Test>>),
                              MkArg(aC, Named(tT, FALSE), <<>>)>>,
                            <<ReplacesName(fL)>>)>>]

\* input B @replaces(name: "O") { k: T! @replaces(name: "l") }
DefB3 ==
    [MkDef("INPUT_OBJECT", nB, FALSE, <<>>, <<ReplacesName(nO)>>) EXCEPT
       !.Fields = <<MkField(fK, Named(tT, TRUE), <<>>, <<ReplacesName(fL)>>)>>]

\* input B { k: T @replaces(name: "l", treatZeroAsUnset: false) @test }
DefB4 ==
    [MkDef("INPUT_OBJECT", nB, FALSE, <<>>, <<>>) EXCEPT
       !.Fields = <<MkField(fK, Named(tT, FALSE), <<>>,
                            <<Replaces(fL, <<>>, sFalse), Test>>)>>]

\* enum C @replaces(name: "O") @test { V @replaces(name: "W") @test   X }
DefC1 ==
    [MkDef("ENUM", nC, FALSE, <<>>, <<ReplacesName(nO), Test>>) EXCEPT
       !.EnumValues = <<MkEnumValue(vV, <<ReplacesName(vW), Test>>),
                        MkEnumValue(vX, <<>>)>>]

\* enum C { V @replaces(name: "W", type: "U") }
DefC2 ==
    [MkDef("ENUM", nC, FALSE, <<>>, <<>>) EXCEPT
       !.EnumValues = <<MkEnumValue(vV, <<Replaces(vW, tU, <<>>)>>)>>]

\* union C @replaces(name: "P") = A | B
DefC3 ==
    [MkDef("UNION", nC, FALSE, <<>>, <<ReplacesName(nP)>>) EXCEPT
       !.Types = <<nA, nB>>]

\* type C { x: T }
DefC4 ==
    [MkDef("OBJECT", nC, FALSE, <<>>, <<>>) EXCEPT
       !.Fields = <<MkField(fX, Named(tT, FALSE), <<>>, <<>>)>>]

\* enum C { V @replaces(name: "W")   X }
DefC5 ==
    [MkDef("ENUM", nC, FALSE, <<>>, <<>>) EXCEPT
       !.EnumValues = <<MkEnumValue(vV, <<ReplacesName(vW)>>),
                        MkEnumValue(vX, <<>>)>>]

MixedPool == {DefA1, DefA2, DefA3, DefB1, DefB2, DefB3, DefB4,
              DefC1, DefC2, DefC3, DefC4, DefC5}

Init == InitWith(MixedPool)

Spec == Init /\ [][Next]_vars

-----------------------------------------------------------------------------
(* SpecTypes: one type whose renamed field and its argument range over the  *)
(* list and non-null shapes of a type                                       *)

\* nesting depth of the types of the fields
MaxDepth == 2

RECURSIVE TypesOfDepth(_)
TypesOfDepth(d) ==
    IF d = 0 THEN { Named(tT, nonNull) : nonNull \in BOOLEAN }
    ELSE { ListOf(t, nonNull) : t \in TypesOfDepth(d - 1), nonNull \in BOOLEAN }

TypesUpTo(d) == UNION { TypesOfDepth(e) : e \in 0..d }

\* [type|interface] A [@replaces(name: "O")] {
\*   k(a: <argument type> [@replaces(name: "b"[, type: "U"]) @test]): <type>
\*      @replaces(name: "l"[, type: "U"]) }
TypedPool ==
    { [MkDef(kindOf, nA, FALSE, <<>>, marker) EXCEPT
         !.Fields = <<MkField(fK, type, <<MkArg(aA, argumentType, argumentMarker)>>,
                              fieldMarker)>>] :
        kindOf \in {"OBJECT"},
        marker \in {<<>>, <<ReplacesName(nO)>>},
        type \in TypesUpTo(MaxDepth),
        argumentType \in TypesOfDepth(MaxDepth - 1),
        argumentMarker \in {<<>>, <<ReplacesName(aB)>>, <<Replaces(aB, tU, <<>>), Test>>},
        fieldMarker \in {<<ReplacesName(fL)>>, <<Replaces(fL, tU, <<>>)>>} }

InitTypes == InitWith(TypedPool)

SpecTypes == InitTypes /\ [][Next]_vars

-----------------------------------------------------------------------------
(* SpecInput: one definition of each kind that has fields, whose field and  *)
(* its arguments carry the marker or not                                    *)

\* the argument lists of the field: a and c, marked or not
ArgumentLists ==
    {<<>>,
     <<MkArg(aA, Named(tT, FALSE), <<>>)>>,
     <<MkArg(aA, Named(tT, FALSE), <<ReplacesName(aB)>>)>>,
     <<MkArg(aA, Named(tT, FALSE), <<ReplacesName(aB)>>),
       MkArg(aC, Named(tT, FALSE), <<>>)>>,
     <<MkArg(aA, Named(tT, FALSE), <<Test, ReplacesName(aB)>>),
       MkArg(aC, Named(tT, TRUE), <<Replaces(aA, tU, <<>>)>>)>>}

\* the directives of the field: no marker, or a marker without
\* treatZeroAsUnset, with treatZeroAsUnset: true or with treatZeroAsUnset: false
FieldDirectives ==
    {<<>>, <<Test>>, <<ReplacesName(fL)>>, <<Replaces(fL, <<>>, sTrue)>>,
     <<Test, Replaces(fL, <<>>, sFalse)>>}

\* [type|input|interface] B { i: T   k(<arguments>): <type> <directives> }
InputPool ==
    { [MkDef(kindOf, nB, FALSE, <<>>, <<>>) EXCEPT
         !.Fields = <<MkField(fI, Named(tT, FALSE), <<>>, <<>>),
                      MkField(fK, type, arguments, directives)>>] :
        kindOf \in {"OBJECT", "INPUT_OBJECT", "INTERFACE"},
        type \in TypesUpTo(MaxDepth - 1),
        arguments \in ArgumentLists,
        directives \in FieldDirectives }

InitInput == InitWith(InputPool)

SpecInput == InitInput /\ [][Next]_vars

-----------------------------------------------------------------------------
(* SpecKinds: definitions of every kind, with and without a marker on the   *)
(* definition and on its member, the markers with and without a type        *)

\* no marker, @replaces(name: ...) and @test @replaces(name: ..., type: "U")
MarkersFor(oldName) ==
    {<<>>, <<ReplacesName(oldName)>>, <<Test, Replaces(oldName, tU, <<>>)>>}

\* [type|input|interface] A <marker> { i: T @test   k: T <marker> }
KindsWithFields ==
    { [MkDef(kindOf, nA, FALSE, <<>>, marker) EXCEPT
         !.Fields = <<MkField(fI, Named(tT, FALSE), <<>>, <<Test>>),
                      MkField(fK, Named(tT, FALSE), <<>>, memberMarker)>>] :
        kindOf \in {"OBJECT", "INPUT_OBJECT", "INTERFACE"},
        marker \in MarkersFor(nO),
        memberMarker \in MarkersFor(fL) }

\* enum A <marker> { V <marker>   X }; a marker on V stands next to @test, so
\* that the directives of V are never left as an empty list that is not nil
KindsEnum ==
    { [MkDef("ENUM", nA, FALSE, <<>>, marker) EXCEPT
         !.EnumValues = <<MkEnumValue(vV, memberMarker), MkEnumValue(vX, <<>>)>>] :
        marker \in MarkersFor(nO),
        memberMarker \in {<<>>, <<ReplacesName(vW), Test>>,
                          <<Test, Replaces(vW, tU, <<>>)>>} }

\* union A <marker> = B
KindsUnion ==
    { [MkDef("UNION", nA, FALSE, <<>>, marker) EXCEPT !.Types = <<nB>>] :
        marker \in MarkersFor(nO) }

\* type B @key(fields: "x") @test { x(a: T @test): T @test }
DefB5 ==
    [MkDef("OBJECT", nB, FALSE, <<"d">>, <<Key(fX), Test>>) EXCEPT
       !.Fields = <<MkField(fX, Named(tT, FALSE),
                            <<MkArg(aA, Named(tT, FALSE), <<Test>>)>>, <<Test>>)>>]

\* input B @replaces(name: "P", type: "U") {
\*   k: T! @replaces(name: "l")   x: [T!] @replaces(name: "m", type: "U") }
DefB6 ==
    [MkDef("INPUT_OBJECT", nB, FALSE, <<>>, <<Replaces(nP, tU, <<>>)>>) EXCEPT
       !.Fields = <<MkField(fK, Named(tT, TRUE), <<>>, <<ReplacesName(fL)>>),
                    MkField(fX, ListOf(Named(tT, TRUE), FALSE), <<>>,
                            <<Replaces(fM, tU, <<>>)>>)>>]

\* enum B { V @replaces(name: "W", type: "U")   X @replaces(name: "V", type: "T") }
DefB7 ==
    [MkDef("ENUM", nB, FALSE, <<>>, <<>>) EXCEPT
       !.EnumValues = <<MkEnumValue(vV, <<Replaces(vW, tU, <<>>)>>),
                        MkEnumValue(vX, <<Replaces(vV, tT, <<>>)>>)>>]

\* scalar B @replaces(name: "P", type: "U")
DefB8 == MkDef("SCALAR", nB, FALSE, <<>>, <<Replaces(nP, tU, <<>>)>>)

\* scalar B @test
DefB9 == MkDef("SCALAR", nB, FALSE, <<>>, <<Test>>)

KindsPool ==
    KindsWithFields \cup KindsEnum \cup KindsUnion
    \cup {DefB5, DefB6, DefB7, DefB8, DefB9}

InitKinds == InitWith(KindsPool)

SpecKinds == InitKinds /\ [][Next]_vars

-----------------------------------------------------------------------------
(* SpecExtend: one renamed definition after source texts with and without   *)
(* the word extend                                                         *)

\* the longest run of blanks between extend and the keyword
MaxBlanks == 15

RECURSIVE Repeat(_, _)
Repeat(c, n) == IF n = 0 THEN <<>> ELSE <<c>> \o Repeat(c, n - 1)

sType == <<"t","y","p","e">>
sInterface == <<"i","n","t","e","r","f","a","c","e">>

\* what stands before the declaration: nothing, the end of another
\* definition, a long line, a word, a comment that ends in extend
Leads ==
    {<<>>, <<"}", "\n">>, <<"}", " ">>, <<"x">>, <<"_">>,
     Repeat("x", 20) \o <<"\n">>,
     <<"#", " ">> \o sExtend \o <<"\n">>,
     <<"#", " ">> \o sExtend \o <<" ">> \o sType \o <<"\n">>}

\* what stands between extend and the keyword
Blanks ==
    {<<>>, <<" ">>, <<"\t", " ">>, <<"\n">>, <<" ", "\n", " ">>,
     Repeat(" ", MaxBlanks - 6), Repeat(" ", MaxBlanks - 5),
     Repeat(" ", MaxBlanks - 1), Repeat(" ", MaxBlanks)}

\* what stands between the keyword and the name
BlanksBeforeName ==
    {<<" ">>, <<"\n">>, <<" ", "\t", "\n", " ">>, <<" ", "#", "\n">>}

\* <lead>[extend<blanks>]<keyword><blanks>A @replaces(name: "O") @test { k: T }
ExtendPool ==
    { [MkDef(IF keyword = sType THEN "OBJECT" ELSE "INTERFACE", nA, FALSE, <<>>,
             <<ReplacesName(nO), Test>>) EXCEPT
         !.Fields = <<MkField(fK, Named(tT, FALSE), <<>>, <<>>)>>,
         !.Position = [Start |-> Len(lead \o word \o keyword \o blanks),
                       Input |-> lead \o word \o keyword \o blanks]] :
        lead \in Leads,
        word \in {<<>>} \cup { sExtend \o b : b \in Blanks },
        keyword \in {sType, sInterface},
        blanks \in BlanksBeforeName }

InitExtend == InitWith(ExtendPool)

SpecExtend == InitExtend /\ [][Next]_vars

-----------------------------------------------------------------------------
(* SpecDescribed: one definition with a renamed field, declared with and    *)
(* without extend, the definition and the field with and without a          *)
(* description                                                              *)

Descriptions == {<<>>, <<"d">>, <<"d", "\n", "e">>, <<"d", "\t", "e">>}

\* [extend] [type|input|interface] A [@replaces(name: "O") @test] {
\*   k: T @replaces(name: ..., treatZeroAsUnset: false) }
DescribedPool ==
    { [MkDef(kindOf, nA, extend, description, marker) EXCEPT
         !.Fields = <<[MkField(fK, Named(tT, FALSE), <<>>, directives) EXCEPT
                         !.Description = fieldDescription]>>] :
        kindOf \in {"OBJECT", "INPUT_OBJECT", "INTERFACE"},
        extend \in BOOLEAN,
        description \in Descriptions,
        marker \in {<<>>, <<ReplacesName(nO), Test>>},
        directives \in {<<Replaces(fL, <<>>, sFalse)>>,
                        <<Test, Replaces(<<"_", "l">>, <<>>, sFalse), Key(fK)>>},
        fieldDescription \in Descriptions }

InitDescribed == InitWith(DescribedPool)

SpecDescribed == InitDescribed /\ [][Next]_vars

-----------------------------------------------------------------------------
(* SpecBackfill: objects that implement interfaces and unions, with and     *)
(* without renamed interfaces and members                                   *)

nQ == <<"Q">>

\* interface A [@replaces(name: "P")] { x: T }   type A @replaces(name: "P") { x: T }
\* [type B [implements ...] | union B = ...] [@replaces(name: "O" | "P")]
\* interface C @replaces(name: "Q") { x: T }     type C { x: T }
BackfillPool ==
    { [MkDef(kindOf, nA, FALSE, <<>>, marker) EXCEPT
         !.Fields = <<MkField(fX, Named(tT, FALSE), <<>>, <<>>)>>] :
        kindOf \in {"INTERFACE", "OBJECT"}, marker \in {<<>>, <<ReplacesName(nP)>>} }
    \cup
    { [MkDef("OBJECT", nB, FALSE, <<>>, marker) EXCEPT
         !.Interfaces = interfaces,
         !.Fields = <<MkField(fX, Named(tT, FALSE), <<>>, <<>>)>>] :
        interfaces \in {<<>>, <<nA>>, <<nC>>, <<nA, nC>>, <<nC, nA>>},
        marker \in {<<>>, <<ReplacesName(nO)>>, <<ReplacesName(nP)>>} }
    \cup
    { [MkDef("UNION", nB, FALSE, <<>>, marker) EXCEPT !.Types = members] :
        members \in {<<nA>>, <<nC>>, <<nA, nC>>, <<nC, nA>>},
        marker \in {<<>>, <<ReplacesName(nO)>>, <<ReplacesName(nP)>>} }
    \cup
    { [MkDef(kindOf, nC, FALSE, <<>>, marker) EXCEPT
         !.Fields = <<MkField(fX, Named(tT, FALSE), <<>>, <<>>)>>] :
        kindOf \in {"INTERFACE", "OBJECT"}, marker \in {<<>>, <<ReplacesName(nQ)>>} }

InitBackfill == InitWith(BackfillPool)

SpecBackfill == InitBackfill /\ [][Next]_vars

-----------------------------------------------------------------------------
(* SpecStages: schemas of up to four definitions that feed every stage of   *)
(* the synthesis at once                                                    *)

MaxStageDefs == 4

nD == <<"D">>
nN == <<"N">>

dTab == <<"d", "\t", "e">>

MarkerOrNone(marked, oldName) == IF marked THEN <<ReplacesName(oldName)>> ELSE <<>>

\* "d<tab>e" interface A [@replaces(name: "P")] {
\*   "d<tab>e" k: T @replaces(name: "l") }
StageInterface(marked) ==
    [MkDef("INTERFACE", nA, FALSE, dTab, MarkerOrNone(marked, nP)) EXCEPT
       !.Fields = <<[MkField(fK, Named(tT, FALSE), <<>>, <<ReplacesName(fL)>>) EXCEPT
                       !.Description = dTab]>>]

\* type B implements A [@replaces(name: "O")] { k: T @replaces(name: "l") }
StageObject(marked) ==
    [MkDef("OBJECT", nB, FALSE, <<>>, MarkerOrNone(marked, nO)) EXCEPT
       !.Interfaces = <<nA>>,
       !.Fields = <<MkField(fK, Named(tT, FALSE), <<>>, <<ReplacesName(fL)>>)>>]

\* union C [@replaces(name: "Q")] = B
StageUnion(marked) ==
    [MkDef("UNION", nC, FALSE, <<>>, MarkerOrNone(marked, nQ)) EXCEPT !.Types = <<nB>>]

\* enum D [@replaces(name: "N")] { "d<tab>e" V @replaces(name: "W") @test  X }
StageEnum(marked) ==
    [MkDef("ENUM", nD, FALSE, <<>>, MarkerOrNone(marked, nN)) EXCEPT
       !.EnumValues = <<[MkEnumValue(vV, <<ReplacesName(vW), Test>>) EXCEPT
                           !.Description = dTab],
                        MkEnumValue(vX, <<>>)>>]

StagePool ==
    { StageInterface(marked) : marked \in BOOLEAN }
    \cup { StageObject(marked) : marked \in BOOLEAN }
    \cup { StageUnion(marked) : marked \in BOOLEAN }
    \cup { StageEnum(marked) : marked \in BOOLEAN }

StageSchemas ==
    { [n \in { d.Name : d \in S } |-> CHOOSE d \in S : d.Name = n] :
        S \in UpTo(StagePool, MaxStageDefs) \ {{}} }

InitStages == InitFrom(StageSchemas)

SpecStages == InitStages /\ [][Next]_vars

-----------------------------------------------------------------------------
(* SpecMarker: GetReplaceInfo and (r *Replacer).getReplaceInfo called on     *)
(* directive lists                                                          *)

MaxMarkerCalls == 2

\* the arguments of a marker: name, type and treatZeroAsUnset, each one
\* supplied or left out
MarkerArguments ==
    { (IF name # <<>> THEN <<Argument("name", name)>> ELSE <<>>)
        \o (IF type # <<>> THEN <<Argument("type", type)>> ELSE <<>>)
        \o (IF tzau # <<>> THEN <<Argument("treatZeroAsUnset", tzau)>> ELSE <<>>) :
        name \in {<<>>, fL}, type \in {<<>>, tU}, tzau \in {<<>>, sTrue, sFalse} }

\* directive lists without a marker, with one marker alone or after @test,
\* and with a second marker after a marker without arguments
MarkerLists ==
    {<<>>, <<Test>>, <<Key(kK), Test>>}
        \cup { <<Directive("replaces", arguments)>> : arguments \in MarkerArguments }
        \cup { <<Test, Directive("replaces", arguments)>> : arguments \in MarkerArguments }
        \cup { <<Directive("replaces", <<>>), ReplacesName(fL)>> }

\* info, err := GetReplaceInfo(directives)
GetReplaceInfoCall(directives) ==
    /\ pc = "idle"
    /\ Len(results) < MaxMarkerCalls
    /\ results' = Append(results,
          [mode |-> "GetReplaceInfo", input |-> directives, before |-> r,
           info |-> GetReplaceInfo(directives).info,
           err |-> GetReplaceInfo(directives).err,
           ok |-> GetReplaceInfo(directives).err = "nil"])
    /\ UNCHANGED <<parsed, schema, input, pc, mode, todo, r, buf, errsAtSynth,
                   query, returned>>

\* info, ok := r.getReplaceInfo(directives)
ReplacerGetReplaceInfoCall(directives) ==
    /\ pc = "idle"
    /\ Len(results) < MaxMarkerCalls
    /\ r' = getReplaceInfo(r, directives).rep
    /\ results' = Append(results,
          [mode |-> "getReplaceInfo", input |-> directives, before |-> r,
           info |-> getReplaceInfo(r, directives).info,
           err |-> "nil",
           ok |-> getReplaceInfo(r, directives).ok])
    /\ UNCHANGED <<parsed, schema, input, pc, mode, todo, buf, errsAtSynth,
                   query, returned>>

NextMarker ==
    \E directives \in MarkerLists :
        \/ GetReplaceInfoCall(directives)
        \/ ReplacerGetReplaceInfoCall(directives)

InitMarker == InitFrom({EmptyMap})

SpecMarker == InitMarker /\ [][NextMarker]_vars

-----------------------------------------------------------------------------
(* SpecChains: one type with federation keys and renamed fields, some of    *)
(* them renamed from the new name of another                                *)

kKL == <<"k", " ", "l">>

Renamed(name, oldName) == MkField(name, Named(tT, FALSE), <<>>, <<ReplacesName(oldName)>>)

\* k: T @replaces(name: "l") alone, after a field without marker, and next to
\* l: T @replaces(name: "m") or l: T @replaces(name: "k"), in either order
ChainFields ==
    {<<Renamed(fK, fL)>>,
     <<MkField(fI, Named(tT, FALSE), <<>>, <<>>), Renamed(fK, fL)>>,
     <<Renamed(fK, fL), Renamed(fL, fM)>>,
     <<Renamed(fL, fM), Renamed(fK, fL)>>,
     <<Renamed(fK, fL), Renamed(fL, fK)>>,
     <<Renamed(fL, fK), Renamed(fK, fL)>>}

ChainKeys == {<<>>, <<Key(kK)>>, <<Key(kIK)>>, <<Key(kIKv), Key(kKL)>>}

\* type|interface A [@replaces(name: "O")] [@key(fields: ...)] { ... }
ChainPool ==
    { [MkDef(kindOf, nA, FALSE, <<>>, MarkerOrNone(marked, nO) \o keys) EXCEPT
         !.Fields = fields] :
        kindOf \in {"OBJECT", "INTERFACE"}, marked \in BOOLEAN,
        keys \in ChainKeys, fields \in ChainFields }

InitChains == InitWith(ChainPool)

SpecChains == InitChains /\ [][Next]_vars

-----------------------------------------------------------------------------
(* SpecArguments: fields with one argument, with markers with and without   *)
(* a name on the field and on the argument                                  *)

\* @replaces(type: "U"): a marker without name
ReplacesNameless == Directive("replaces", <<Argument("type", tU)>>)

ArgumentMarkers == {<<>>, <<ReplacesName(aB)>>, <<ReplacesNameless>>, <<Test, ReplacesNameless>>}

FieldMarkers == {<<>>, <<ReplacesName(fL)>>, <<ReplacesNameless>>}

\* type|interface|input A|B { k(a: T [marker]): T [marker] }
ArgumentPool ==
    { [MkDef(kindOf, name, FALSE, <<>>, <<>>) EXCEPT
         !.Fields = <<MkField(fK, Named(tT, FALSE),
                              <<MkArg(aA, Named(tT, FALSE), argumentMarker)>>,
                              fieldMarker)>>] :
        kindOf \in {"OBJECT", "INTERFACE"}, name \in {nA, nB},
        argumentMarker \in ArgumentMarkers, fieldMarker \in FieldMarkers }

InitArguments == InitWith(ArgumentPool)

SpecArguments == InitArguments /\ [][Next]_vars

-----------------------------------------------------------------------------
(* SpecMetadata: queries against the schema of the operation metadata tests *)

\* the number of selections of a query below testType
MaxSelections == 4

Migrate(state) ==
    Directive("migrate", <<Argument("from", "python"), Argument("state", state)>>)

\* a selected field with the definition LoadQuery has bound to it
SelectedField(alias, name, directives, selectionSet) ==
    [Kind |-> "Field", Alias |-> alias, Name |-> name,
     Definition |-> [Directives |-> directives, SelectionSet |-> <<>>],
     SelectionSet |-> selectionSet]

\* ... on TestType { selectionSet }
InlineFragment(selectionSet) ==
    [Kind |-> "InlineFragment", Alias |-> "", Name |-> "",
     Definition |-> [Directives |-> <<>>, SelectionSet |-> <<>>],
     SelectionSet |-> selectionSet]

\* ...F with fragment F on TestType { selectionSet }
FragmentSpread(selectionSet) ==
    [Kind |-> "FragmentSpread", Alias |-> "", Name |-> "F",
     Definition |-> [Directives |-> <<>>, SelectionSet |-> selectionSet],
     SelectionSet |-> <<>>]

\* the selections of the scalar fields of TestType, scalarField also aliased
ScalarSelections ==
    {SelectedField("scalarField", "scalarField", <<>>, <<>>),
     SelectedField("rename", "scalarField", <<>>, <<>>),
     SelectedField("manualField", "manualField", <<Migrate("manual")>>, <<>>),
     SelectedField("sideBySideField", "sideBySideField",
                   <<Migrate("side-by-side")>>, <<>>),
     SelectedField("canaryField", "canaryField", <<Migrate("canary")>>, <<>>),
     SelectedField("migratedField", "migratedField", <<Migrate("migrated")>>, <<>>)}

\* the selection sets of n selections in all: scalar fields, objectField
\* with a selection set, inline fragments and fragment spreads
RECURSIVE SelectionsOfSize(_)
RECURSIVE SelectionSetsOfSize(_)

SelectionsOfSize(n) ==
    IF n = 1 THEN ScalarSelections
    ELSE { SelectedField("objectField", "objectField", <<>>, s) :
              s \in SelectionSetsOfSize(n - 1) }
         \cup { InlineFragment(s) : s \in SelectionSetsOfSize(n - 1) }
         \cup { FragmentSpread(s) : s \in SelectionSetsOfSize(n - 1) }

SelectionSetsOfSize(n) ==
    IF n = 0 THEN {<<>>}
    ELSE UNION { { <<v>> \o s : v \in SelectionsOfSize(k),
                                s \in SelectionSetsOfSize(n - k) } : k \in 1..n }

\* query { testType { selectionSet } }
Operation(selectionSet) ==
    [SelectionSet |-> <<SelectedField("testType", "testType", <<>>, selectionSet)>>]

\* texts with errors, without an operation, with one and with two
Queries(size) ==
    {[errList |-> TRUE, Operations |-> <<>>], NoQuery}
    \cup { [errList |-> FALSE, Operations |-> <<Operation(s)>>] :
             s \in UNION { SelectionSetsOfSize(n) : n \in 1..size } }
    \cup { [errList |-> FALSE, Operations |-> <<Operation(s), Operation(s)>>] :
             s \in SelectionSetsOfSize(1) }

InitMetadata ==
    /\ parsed = EmptyMap
    /\ schema = parsed
    /\ input = parsed
    /\ pc = "idle"
    /\ mode = "updates"
    /\ todo = {}
    /\ r = NewReplacer
    /\ buf = <<>>
    /\ errsAtSynth = -1
    /\ results = <<>>
    /\ query \in Queries(MaxSelections)
    /\ returned = <<>>

SpecMetadata == InitMetadata /\ [][NextMetadata]_vars

\* one Replacer over the schemas of MixedPool
SpecReplacer == Init /\ [][NextReplacer]_vars

-----------------------------------------------------------------------------
(* Properties of GetReplacesDirectiveUpdates as a whole *)

LastResult == results[Len(results)]

\* the calls of GetReplacesDirectiveUpdates that have returned
UpdateRuns == { i \in DOMAIN results : results[i].mode = "updates" }

\* C1: when indexing has left at least one error, GetReplacesDirectiveUpdates
\* returns the empty text and a non-nil error; no call returns text together
\* with an error.
C1_ErrorsGiveEmptyTextAndError ==
    /\ \A i \in UpdateRuns : results[i].err.failed => results[i].text = <<>>
    /\ (pc = "idle" /\ results # <<>> /\ mode = "updates" /\ errsAtSynth > 0)
          => (LastResult.text = <<>> /\ LastResult.err.failed)

\* a call whose indexing failed and whose synthesis wrote blocks has returned
C1_Witness ==
    /\ pc = "idle" /\ results # <<>> /\ mode = "updates"
    /\ errsAtSynth > 0
    /\ buf # <<>>
    /\ LastResult.text = <<>>
    /\ LastResult.err.failed

\* C2: getSchemaAdditions is entered only with an empty error list.
C2_SynthesisOnlyWithoutErrors ==
    pc = "definitions" => Len(r.errors) = 0

\* C3: when the call returns, the schema is as it was when the call was made.
C3_InputSchemaUnchanged ==
    pc = "return" => schema = input

\* C4: two calls of GetReplacesDirectiveUpdates on the same schema return the
\* same text, whatever the orders in which schema.Types was ranged over.
C4_SameSchemaSameText ==
    \A i, j \in UpdateRuns :
        results[i].input = results[j].input => results[i].text = results[j].text

-----------------------------------------------------------------------------
(* What a schema asks for, read from the schema a call was made on *)

HasMarker(directives) == ForName(directives, "replaces") # <<>>

\* the marker's argument of that name, as a sequence of length 0 or 1
MarkerArgument(directives, name) ==
    ForName(ForName(directives, "replaces")[1].Arguments, name)

\* the value of the marker's argument of that name, "" when it is left out
MarkerValue(directives, name) ==
    IF MarkerArgument(directives, name) = <<>> THEN <<>>
    ELSE MarkerArgument(directives, name)[1].Raw

HasFields(def) == def.Kind \in {"OBJECT", "INPUT_OBJECT", "INTERFACE"}

FieldsOf(def) == IF HasFields(def) THEN def.Fields ELSE <<>>

MarkedFields(def) == SelectSeq(FieldsOf(def), LAMBDA f : HasMarker(f.Directives))

\* the old names of the renamed fields of a definition, in field order
OldFieldNames(def) ==
    [j \in DOMAIN MarkedFields(def) |->
        MarkerValue(MarkedFields(def)[j].Directives, "name")]

\* the types that have at least one renamed field
Owners(types) == { n \in DOMAIN types : MarkedFields(types[n]) # <<>> }

\* the names a type's field extension is due under
NamesDue(def) ==
    IF HasMarker(def.Directives)
    THEN <<[name |-> def.Name, owner |-> def.Name],
           [name |-> MarkerValue(def.Directives, "name"), owner |-> def.Name]>>
    ELSE <<[name |-> def.Name, owner |-> def.Name]>>

\* the field extensions due for a schema, by new type name
RECURSIVE ExtensionsDue(_, _, _)
ExtensionsDue(types, owners, i) ==
    IF i > Len(owners) THEN <<>>
    ELSE NamesDue(types[owners[i]]) \o ExtensionsDue(types, owners, i + 1)

\* a written block that is a field extension: an extension whose fields all
\* carry the @goField binding
IsFieldExtension(b) ==
    /\ b.Extend
    /\ b.Fields # <<>>
    /\ \A j \in DOMAIN b.Fields : ForName(b.Fields[j].Directives, "goField") # <<>>

FieldExtensions(text) == SelectSeq(text, IsFieldExtension)

FieldNames(b) == [j \in DOMAIN b.Fields |-> b.Fields[j].Name]

\* the calls of GetReplacesDirectiveUpdates that returned without an error
SuccessfulRuns == { i \in UpdateRuns : ~results[i].err.failed }

\* the field extensions a run wrote and the ones its schema asks for
Written(i) == FieldExtensions(results[i].text)
Due(i) == ExtensionsDue(results[i].input, SortStrings(Owners(results[i].input)), 1)

\* C5: for every type with a renamed field the overlay holds one field
\* extension under the type's name with the old-named fields, followed by a
\* second one with the same fields under the type's old name exactly when the
\* type carries a marker itself.
C5_DoublingRule ==
    \A i \in SuccessfulRuns :
        /\ Len(Written(i)) = Len(Due(i))
        /\ \A p \in DOMAIN Written(i) \cap DOMAIN Due(i) :
              /\ Written(i)[p].Name = Due(i)[p].name
              /\ Written(i)[p].Kind = results[i].input[Due(i)[p].owner].Kind
              /\ FieldNames(Written(i)[p])
                    = OldFieldNames(results[i].input[Due(i)[p].owner])

\* a call has returned the overlay of a schema in which a type with a marker
\* and a type without one both have a renamed field
C5_Witness ==
    /\ pc = "idle" /\ results # <<>>
    /\ Len(results) \in SuccessfulRuns
    /\ \E n, m \in Owners(LastResult.input) :
          /\ HasMarker(LastResult.input[n].Directives)
          /\ ~HasMarker(LastResult.input[m].Directives)
    /\ Len(Written(Len(results))) >= 3

\* the non-null flags of a type, outermost first
RECURSIVE ShapeOf(_)
ShapeOf(t) ==
    IF t.Elem = <<>> THEN <<t.NonNull>>
    ELSE <<t.NonNull>> \o ShapeOf(t.Elem[1])

\* the innermost named type of a type
RECURSIVE Innermost(_)
Innermost(t) == IF t.Elem = <<>> THEN t.NamedType ELSE Innermost(t.Elem[1])

\* old is the type the marker in directives asks for in place of new
TypeAsked(old, new, directives) ==
    IF HasMarker(directives) /\ MarkerValue(directives, "type") # <<>>
    THEN /\ ShapeOf(old) = ShapeOf(new)
         /\ Innermost(old) = MarkerValue(directives, "type")
    ELSE old = new

\* the old field has the type and the argument types the new field asks for
FieldAsked(old, new) ==
    /\ TypeAsked(old.Type, new.Type, new.Directives)
    /\ Len(old.Arguments) = Len(new.Arguments)
    /\ \A k \in DOMAIN new.Arguments :
          TypeAsked(old.Arguments[k].Type, new.Arguments[k].Type,
                    new.Arguments[k].Directives)

\* C6: the type of an old field or old argument has the list nesting and the
\* non-null flags of the new type, with the innermost named type replaced by
\* the marker's type; without a type in the marker it is the new type.
C6_TypeShapeKept ==
    \A i \in SuccessfulRuns :
        \A p \in DOMAIN Written(i) \cap DOMAIN Due(i) :
            /\ Len(Written(i)[p].Fields)
                  = Len(MarkedFields(results[i].input[Due(i)[p].owner]))
            /\ \A j \in DOMAIN Written(i)[p].Fields
                        \cap DOMAIN MarkedFields(results[i].input[Due(i)[p].owner]) :
                  FieldAsked(Written(i)[p].Fields[j],
                             MarkedFields(results[i].input[Due(i)[p].owner])[j])

\* a call has returned an old field whose marker names a type and whose type
\* is a list of lists with a non-null flag at some level, and an old argument
\* of a list type whose marker names a type
C6_Witness ==
    /\ pc = "idle" /\ results # <<>>
    /\ Len(results) \in SuccessfulRuns
    /\ Written(Len(results)) # <<>>
    /\ \E n \in Owners(LastResult.input) :
          \E j \in DOMAIN MarkedFields(LastResult.input[n]) :
             LET f == MarkedFields(LastResult.input[n])[j]
                 g == Written(Len(results))[1].Fields[j]
             IN /\ MarkerValue(f.Directives, "type") = tU
                /\ Len(ShapeOf(f.Type)) = 3
                /\ TRUE \in Range(ShapeOf(f.Type))
                /\ FALSE \in Range(ShapeOf(f.Type))
                /\ Innermost(g.Type) = tU
                /\ \E k \in DOMAIN f.Arguments :
                      /\ HasMarker(f.Arguments[k].Directives)
                      /\ MarkerValue(f.Arguments[k].Directives, "type") = tU
                      /\ Len(ShapeOf(f.Arguments[k].Type)) = 2
                      /\ Innermost(g.Arguments[k].Type) = tU

\* the renamed field whose name is the whole word of text that starts at i
RenamedAt(text, fields, i) ==
    { j \in DOMAIN fields : MatchesWordAt(text, fields[j].Name, i) }

\* text with every whole word that is the name of a renamed field replaced by
\* that field's old name
RECURSIVE WithOldNames(_, _, _)
WithOldNames(text, fields, i) ==
    IF i > Len(text) THEN <<>>
    ELSE IF RenamedAt(text, fields, i) # {}
         THEN LET j == CHOOSE x \in RenamedAt(text, fields, i) : TRUE
              IN MarkerValue(fields[j].Directives, "name")
                 \o WithOldNames(text, fields, i + Len(fields[j].Name))
         ELSE <<text[i]>> \o WithOldNames(text, fields, i + 1)

\* the keys of a definition that hold the name of a renamed field as a whole
\* word, each with the names replaced
RECURSIVE KeysDue(_, _, _)
KeysDue(keys, fields, i) ==
    IF i > Len(keys) THEN <<>>
    ELSE (IF \E j \in DOMAIN fields : _containsExactWord(keys[i], fields[j].Name)
          THEN <<WithOldNames(keys[i], fields, 1)>> ELSE <<>>)
         \o KeysDue(keys, fields, i + 1)

\* the key strings of the @key directives of a written block
KeysWritten(b) == KeysOfDirectives(b.Directives, 1)

\* C7: the @key directives of a field extension are the keys of the owning
\* type that hold the name of a renamed field as a whole word, with each such
\* name replaced by the field's old name; keys that hold it only inside a
\* longer word are not attached; the keys recorded for the type stay as they
\* are in the schema.
C7_KeysRewrittenByWholeWord ==
    /\ \A i \in SuccessfulRuns :
          \A p \in DOMAIN Written(i) \cap DOMAIN Due(i) :
             KeysWritten(Written(i)[p])
                = KeysDue(KeysOfDirectives(
                              results[i].input[Due(i)[p].owner].Directives, 1),
                          MarkedFields(results[i].input[Due(i)[p].owner]), 1)
    /\ pc = "return" =>
          \A n \in DOMAIN r.federationKeys :
             r.federationKeys[n] = KeysOfDirectives(input[n].Directives, 1)

\* the errors of a returned call that carry the given message
ErrorsWith(i, message) ==
    SelectSeq(results[i].err.errorlist, LAMBDA e : e.Message = message)

PlacesOf(errors) == { errors[k].Where : k \in DOMAIN errors }

\* the places <<type, field, argument>> of the marked arguments of the
\* fields without marker of a schema
StrayArguments(types) ==
    UNION { UNION { { <<n, types[n].Fields[j].Name,
                        types[n].Fields[j].Arguments[k].Name>> :
                        k \in { x \in DOMAIN types[n].Fields[j].Arguments :
                                  HasMarker(types[n].Fields[j].Arguments[x].Directives) } } :
                    j \in { y \in DOMAIN FieldsOf(types[n]) :
                              ~HasMarker(types[n].Fields[y].Directives) } } :
            n \in DOMAIN types }

\* the places <<type, field>> of the marked fields of the input types of a
\* schema that satisfy a condition
InputFieldsWith(types, Cond(_)) ==
    UNION { { <<n, types[n].Fields[j].Name>> :
                j \in { y \in DOMAIN FieldsOf(types[n]) :
                          /\ HasMarker(types[n].Fields[y].Directives)
                          /\ Cond(types[n].Fields[y]) } } :
            n \in { m \in DOMAIN types : types[m].Kind = "INPUT_OBJECT" } }

sArgumentNeedsField ==
    "@replaces directive on arguments can only be used on renamed fields"
sMustBeNullable ==
    "input fields using the @replaces directive must be nullable"
sNeedsTreatZero ==
    "@replaces directive on non-list input fields must include treatZeroAsUnset:true or treatZeroAsUnset:false"

\* C8: every marked argument of a field without marker adds one error "...
\* can only be used on renamed fields" and the call fails; marked arguments
\* of marked fields add none.
C8_ArgumentNeedsRenamedField ==
    \A i \in UpdateRuns :
        /\ PlacesOf(ErrorsWith(i, sArgumentNeedsField))
              = StrayArguments(results[i].input)
        /\ Len(ErrorsWith(i, sArgumentNeedsField))
              = Cardinality(StrayArguments(results[i].input))
        /\ StrayArguments(results[i].input) # {} =>
              results[i].err.failed /\ results[i].text = <<>>

\* a call on a schema with two marked arguments on a field without marker has
\* failed with the two errors
C8_Witness ==
    /\ pc = "idle" /\ results # <<>> /\ mode = "updates"
    /\ Cardinality(StrayArguments(LastResult.input)) = 2
    /\ LastResult.err.failed
    /\ Len(ErrorsWith(Len(results), sArgumentNeedsField)) = 2

\* C9: the marked fields of input types whose type is non-null are the ones
\* rejected with "... must be nullable"; marked fields of object and interface
\* types are never rejected for it.
C9_InputFieldMustBeNullable ==
    \A i \in UpdateRuns :
        /\ PlacesOf(ErrorsWith(i, sMustBeNullable))
              = InputFieldsWith(results[i].input, LAMBDA f : f.Type.NonNull)
        /\ Len(ErrorsWith(i, sMustBeNullable))
              = Cardinality(InputFieldsWith(results[i].input, LAMBDA f : f.Type.NonNull))
        /\ InputFieldsWith(results[i].input, LAMBDA f : f.Type.NonNull) # {} =>
              results[i].err.failed

\* a call on an input type with a marked non-null list field has failed with
\* the error
C9_Witness ==
    /\ pc = "idle" /\ results # <<>> /\ mode = "updates"
    /\ InputFieldsWith(LastResult.input,
                       LAMBDA f : f.Type.NonNull /\ f.Type.Elem # <<>>) # {}
    /\ LastResult.err.failed
    /\ Len(ErrorsWith(Len(results), sMustBeNullable)) = 1

\* the field is not a list and its marker leaves treatZeroAsUnset out
LacksTreatZero(f) ==
    /\ f.Type.Elem = <<>>
    /\ MarkerArgument(f.Directives, "treatZeroAsUnset") = <<>>

\* C10: the marked fields of input types rejected with "... must include
\* treatZeroAsUnset ..." are the ones whose type is not a list and whose
\* marker leaves treatZeroAsUnset out.
C10_TreatZeroAsUnsetRequired ==
    \A i \in UpdateRuns :
        /\ PlacesOf(ErrorsWith(i, sNeedsTreatZero))
              = InputFieldsWith(results[i].input, LacksTreatZero)
        /\ Len(ErrorsWith(i, sNeedsTreatZero))
              = Cardinality(InputFieldsWith(results[i].input, LacksTreatZero))
        /\ InputFieldsWith(results[i].input, LacksTreatZero) # {} =>
              results[i].err.failed

\* a call on an input type whose marked field is nullable, not a list and
\* without treatZeroAsUnset has failed with this error alone
C10_Witness ==
    /\ pc = "idle" /\ results # <<>> /\ mode = "updates"
    /\ InputFieldsWith(LastResult.input,
                       LAMBDA f : LacksTreatZero(f) /\ ~f.Type.NonNull) # {}
    /\ LastResult.err.failed
    /\ Len(LastResult.err.errorlist) = 1
    /\ Len(ErrorsWith(Len(results), sNeedsTreatZero)) = 1

-----------------------------------------------------------------------------
(* Violations of a schema and the errors of a call *)

sDefinitionNameOnly ==
    "@replaces directive on definitions can only use name argument"
sEnumValueNameOnly ==
    "@replaces directive on enum values can only use name argument"

HasTypedMarker(directives) ==
    HasMarker(directives) /\ MarkerValue(directives, "type") # <<>>

\* the places <<definition>> of the definitions whose marker names a type
TypedDefinitions(types) ==
    { <<n>> : n \in { m \in DOMAIN types : HasTypedMarker(types[m].Directives) } }

\* the places <<enum, value>> of the enum values whose marker names a type
TypedEnumValues(types) ==
    UNION { { <<n, types[n].EnumValues[j].Name>> :
                j \in { y \in DOMAIN types[n].EnumValues :
                          HasTypedMarker(types[n].EnumValues[y].Directives) } } :
            n \in { m \in DOMAIN types : types[m].Kind = "ENUM" } }

\* the fields and arguments whose marker names a type
TypedFieldsAndArguments(types) ==
    { <<n, j>> \in (DOMAIN types) \X (1..2) :
        /\ j \in DOMAIN FieldsOf(types[n])
        /\ \/ HasTypedMarker(types[n].Fields[j].Directives)
           \/ \E k \in DOMAIN types[n].Fields[j].Arguments :
                 HasTypedMarker(types[n].Fields[j].Arguments[k].Directives) }

\* C11: the definitions whose marker names a type and the enum values whose
\* marker names a type are the ones rejected with "... can only use name
\* argument", whatever the kind of the definition; a marker that names a type
\* on a field or an argument is rejected for nothing of the sort.
C11_TypeOnlyOnFieldsAndArguments ==
    \A i \in UpdateRuns :
        /\ PlacesOf(ErrorsWith(i, sDefinitionNameOnly))
              = TypedDefinitions(results[i].input)
        /\ Len(ErrorsWith(i, sDefinitionNameOnly))
              = Cardinality(TypedDefinitions(results[i].input))
        /\ PlacesOf(ErrorsWith(i, sEnumValueNameOnly))
              = TypedEnumValues(results[i].input)
        /\ Len(ErrorsWith(i, sEnumValueNameOnly))
              = Cardinality(TypedEnumValues(results[i].input))
        /\ TypedDefinitions(results[i].input) \cup TypedEnumValues(results[i].input) # {}
              => results[i].err.failed
        /\ (/\ TypedDefinitions(results[i].input) = {}
            /\ TypedEnumValues(results[i].input) = {}
            /\ StrayArguments(results[i].input) = {}
            /\ InputFieldsWith(results[i].input, LAMBDA f : TRUE) = {})
              => ~results[i].err.failed

\* a call on a schema with a definition and an enum value whose markers name
\* a type has failed with both errors
C11_Witness ==
    /\ pc = "idle" /\ results # <<>> /\ mode = "updates"
    /\ TypedDefinitions(LastResult.input) # {}
    /\ TypedEnumValues(LastResult.input) # {}
    /\ LastResult.err.failed
    /\ ErrorsWith(Len(results), sDefinitionNameOnly) # <<>>
    /\ ErrorsWith(Len(results), sEnumValueNameOnly) # <<>>

\* the places of the violations of a schema
ViolationPlaces(types) ==
    TypedDefinitions(types) \cup TypedEnumValues(types) \cup StrayArguments(types)
    \cup InputFieldsWith(types, LAMBDA f : f.Type.NonNull)
    \cup InputFieldsWith(types, LacksTreatZero)

\* the number of violations of a schema
Violations(types) ==
    Cardinality(TypedDefinitions(types)) + Cardinality(TypedEnumValues(types))
    + Cardinality(StrayArguments(types))
    + Cardinality(InputFieldsWith(types, LAMBDA f : f.Type.NonNull))
    + Cardinality(InputFieldsWith(types, LacksTreatZero))

\* C12: the error list of a call holds one entry for every violation of the
\* schema, wherever it stands, and the call fails exactly when the list is
\* not empty.
C12_EveryViolationReported ==
    \A i \in DOMAIN results :
        /\ Len(results[i].err.errorlist) = Violations(results[i].input)
        /\ results[i].err.failed <=> Violations(results[i].input) > 0

\* a call on a schema of two definitions with violations in both has failed
\* with at least four errors, two of them for one field
C12_Witness ==
    /\ pc = "idle" /\ results # <<>>
    /\ Cardinality(DOMAIN LastResult.input) = 2
    /\ Len(LastResult.err.errorlist) >= 4
    /\ \A n \in DOMAIN LastResult.input :
          \E place \in ViolationPlaces(LastResult.input) : place[1] = n
    /\ InputFieldsWith(LastResult.input, LAMBDA f : f.Type.NonNull)
          \cap InputFieldsWith(LastResult.input, LacksTreatZero) # {}

\* the schema has no marker on any definition, field, argument or enum value
NoMarkers(types) ==
    \A n \in DOMAIN types :
        /\ ~HasMarker(types[n].Directives)
        /\ \A j \in DOMAIN types[n].Fields :
              /\ ~HasMarker(types[n].Fields[j].Directives)
              /\ \A k \in DOMAIN types[n].Fields[j].Arguments :
                    ~HasMarker(types[n].Fields[j].Arguments[k].Directives)
        /\ \A j \in DOMAIN types[n].EnumValues :
              ~HasMarker(types[n].EnumValues[j].Directives)

\* C13: on a schema without any marker GetReplacesDirectiveUpdates returns
\* the empty text and no error.
C13_NoMarkersNoOverlay ==
    \A i \in UpdateRuns :
        NoMarkers(results[i].input) =>
            results[i].text = <<>> /\ ~results[i].err.failed

\* a call on a schema of two definitions with directives and no marker has
\* returned
C13_Witness ==
    /\ pc = "idle" /\ results # <<>> /\ mode = "updates"
    /\ NoMarkers(LastResult.input)
    /\ Cardinality(DOMAIN LastResult.input) = 2
    /\ \E n \in DOMAIN LastResult.input : LastResult.input[n].Directives # <<>>
    /\ LastResult.text = <<>>
    /\ ~LastResult.err.failed

-----------------------------------------------------------------------------
(* The shadow definitions *)

\* directives without the marker, in their order
WithoutMarker(directives) == SelectSeq(directives, LAMBDA d : d.Name # "replaces")

\* fields without the marker on the field and on each of its arguments
UnmarkedFields(fields) ==
    [j \in DOMAIN fields |->
        [fields[j] EXCEPT
            !.Directives = WithoutMarker(@),
            !.Arguments = [k \in DOMAIN @ |->
                              [@[k] EXCEPT !.Directives = WithoutMarker(@)]]]]

UnmarkedEnumValues(values) ==
    [j \in DOMAIN values |-> [values[j] EXCEPT !.Directives = WithoutMarker(@)]]

\* the definitions of a schema that carry a marker
MarkedDefinitions(types) == { n \in DOMAIN types : HasMarker(types[n].Directives) }

\* the blocks a run wrote first, one for each definition with a marker
ShadowsWritten(i) ==
    SubSeq(results[i].text, 1, Cardinality(MarkedDefinitions(results[i].input)))

\* what a written block holds apart from the keyword extend and the description
ContentOf(b) ==
    [Kind |-> b.Kind, Name |-> b.Name, Interfaces |-> b.Interfaces,
     Directives |-> b.Directives, Types |-> b.Types, Fields |-> b.Fields,
     EnumValues |-> b.EnumValues]

\* the content of the shadow a definition with a marker asks for
ShadowDue(def) ==
    [Kind |-> def.Kind, Name |-> MarkerValue(def.Directives, "name"),
     Interfaces |-> def.Interfaces, Directives |-> WithoutMarker(def.Directives),
     Types |-> def.Types, Fields |-> UnmarkedFields(def.Fields),
     EnumValues |-> UnmarkedEnumValues(def.EnumValues)]

\* C14: every definition with a marker is written once more under its old
\* name, without the marker on the definition and on every field, argument
\* and enum value inside it, with all other directives kept in their order
\* and with the fields, arguments and enum values under their new names.
C14_ShadowIsCloneUnderOldName ==
    \A i \in SuccessfulRuns :
        /\ Len(results[i].text) >= Cardinality(MarkedDefinitions(results[i].input))
        /\ \A n \in MarkedDefinitions(results[i].input) :
              \E p \in DOMAIN ShadowsWritten(i) :
                 ContentOf(ShadowsWritten(i)[p]) = ShadowDue(results[i].input[n])
        /\ \A p \in DOMAIN ShadowsWritten(i) :
              \E n \in MarkedDefinitions(results[i].input) :
                 ContentOf(ShadowsWritten(i)[p]) = ShadowDue(results[i].input[n])

\* a call has returned the shadow of a definition that has a renamed field
\* with a renamed argument that carries a second directive, and the shadow of
\* an enum that has a directive next to its marker and a renamed value
C14_Witness ==
    /\ pc = "idle" /\ results # <<>>
    /\ Len(results) \in SuccessfulRuns
    /\ \E n \in MarkedDefinitions(LastResult.input) :
          LET def == LastResult.input[n]
          IN /\ \E j \in DOMAIN def.Fields :
                   /\ HasMarker(def.Fields[j].Directives)
                   /\ \E k \in DOMAIN def.Fields[j].Arguments :
                         /\ HasMarker(def.Fields[j].Arguments[k].Directives)
                         /\ Len(def.Fields[j].Arguments[k].Directives) >= 2
             /\ \E p \in DOMAIN ShadowsWritten(Len(results)) :
                   /\ ShadowsWritten(Len(results))[p].Name
                         = MarkerValue(def.Directives, "name")
                   /\ ShadowsWritten(Len(results))[p].Fields # <<>>
    /\ \E n \in MarkedDefinitions(LastResult.input) :
          /\ LastResult.input[n].Kind = "ENUM"
          /\ Len(LastResult.input[n].Directives) >= 2
          /\ \E j \in DOMAIN LastResult.input[n].EnumValues :
                HasMarker(LastResult.input[n].EnumValues[j].Directives)

\* the source text that stands before the name of a definition
Prefix(def) == SubSeq(def.Position.Input, 1, def.Position.Start)

\* the last n characters of s, all of s when it is shorter
LastChars(s, n) == SubSeq(s, IF Len(s) > n THEN Len(s) - n + 1 ELSE 1, Len(s))

\* the number of characters of the class that s[1..e] ends with
RECURSIVE RunBefore(_, _, _)
RunBefore(s, e, class) ==
    IF e >= 1 /\ s[e] \in class THEN 1 + RunBefore(s, e - 1, class) ELSE 0

WordChars == Range(Upper) \cup Range(Lower) \cup Range(Digits) \cup {"_"}

\* s ends with the word extend, one or more spaces or tabs, one word and one
\* or more white space characters
EndsWithExtend(s) ==
    LET space  == RunBefore(s, Len(s), {" ", "\t", "\n"})
        word   == RunBefore(s, Len(s) - space, WordChars)
        blanks == RunBefore(s, Len(s) - space - word, {" ", "\t"})
        e      == Len(s) - space - word - blanks
    IN /\ space >= 1 /\ word >= 1 /\ blanks >= 1
       /\ e >= 6
       /\ SubSeq(s, e - 5, e) = <<"e", "x", "t", "e", "n", "d">>
       /\ (e = 6 \/ s[e - 6] \notin WordChars)

\* the source declares the definition with extend, seen from the 25
\* characters before its name
UsesExtend(def) == EndsWithExtend(LastChars(Prefix(def), 25))

\* "Deprecated: Replaced by <name>."
Sentence(name) ==
    <<"D","e","p","r","e","c","a","t","e","d",":"," ",
      "R","e","p","l","a","c","e","d"," ","b","y"," ">> \o name \o <<".">>

\* the description the shadow of a definition is said to have
DescriptionDue(def) ==
    IF UsesExtend(def) THEN <<>>
    ELSE IF def.Description = <<>> THEN Sentence(def.Name)
    ELSE def.Description \o <<"\n">> \o Sentence(def.Name)

\* the shadows of run i are written with extend as the source is and with
\* the descriptions that Described gives
ShadowsDescribed(i, Described(_)) ==
    \A n \in MarkedDefinitions(results[i].input) :
        \E p \in DOMAIN ShadowsWritten(i) :
           /\ ShadowsWritten(i)[p].Name
                 = MarkerValue(results[i].input[n].Directives, "name")
           /\ ShadowsWritten(i)[p].Extend = UsesExtend(results[i].input[n])
           /\ ShadowsWritten(i)[p].Description = Described(results[i].input[n])

C15_WitnessDescribed ==
    /\ pc = "idle" /\ results # <<>>
    /\ Len(results) \in SuccessfulRuns
    /\ \E n \in MarkedDefinitions(LastResult.input) :
          /\ ~UsesExtend(LastResult.input[n])
          /\ "\n" \in Range(LastResult.input[n].Description)
    /\ ShadowsWritten(Len(results)) # <<>>
    /\ Len(ShadowsWritten(Len(results))[1].Description) > Len(Sentence(nA))

\* C16: _definitionHasExtends is true exactly when the characters before the
\* definition's name, at most 25 of them, end with the word extend, one or
\* more spaces or tabs, one word and one or more white space characters,
\* wherever the definition stands in the source; the window it reads is the
\* last 25 characters before the name, or all of them when there are fewer.
C16_ExtendRecognised ==
    /\ \A n \in DOMAIN parsed :
          /\ ExtendWindow(parsed[n]) = LastChars(Prefix(parsed[n]), 25)
          /\ _definitionHasExtends(parsed[n]) <=> UsesExtend(parsed[n])
    /\ \A i \in SuccessfulRuns :
          \A n \in MarkedDefinitions(results[i].input) :
             \E p \in DOMAIN ShadowsWritten(i) :
                ShadowsWritten(i)[p].Extend <=> UsesExtend(results[i].input[n])

\* a call has returned an extension as the shadow of a definition that has
\* fewer than 25 characters before its name and is declared with extend
\* after a comment line
C16_Witness ==
    /\ pc = "idle" /\ results # <<>>
    /\ Len(results) \in SuccessfulRuns
    /\ \E n \in MarkedDefinitions(LastResult.input) :
          /\ LastResult.input[n].Position.Start < 25
          /\ "#" \in Range(Prefix(LastResult.input[n]))
          /\ UsesExtend(LastResult.input[n])
    /\ ShadowsWritten(Len(results)) # <<>>
    /\ ShadowsWritten(Len(results))[1].Extend

-----------------------------------------------------------------------------
(* The old fields *)

\* a name with its first letter in upper case
Capitalised(s) ==
    IF s # <<>> /\ s[1] \in Range(Lower)
    THEN <<Upper[Code(s[1]) - Code("a") + 1]>> \o Tail(s)
    ELSE s

\* @deprecated(reason: "Replaced by <newName>.")
DeprecatedDue(newName) ==
    [Name |-> "deprecated",
     Arguments |-> <<[Name |-> "reason",
                      Raw |-> <<"R","e","p","l","a","c","e","d"," ","b","y"," ">>
                              \o newName \o <<".">>]>>]

\* @goField(name: "Deprecated<OldName>")
GoFieldDue(oldName) ==
    [Name |-> "goField",
     Arguments |-> <<[Name |-> "name",
                      Raw |-> <<"D","e","p","r","e","c","a","t","e","d">>
                              \o Capitalised(oldName)]>>]

\* the directives the old field of a renamed field is said to carry
OldDirectivesDue(kindOf, new) ==
    WithoutMarker(new.Directives)
    \o (IF kindOf \in {"OBJECT", "INTERFACE"} THEN <<DeprecatedDue(new.Name)>> ELSE <<>>)
    \o <<GoFieldDue(MarkerValue(new.Directives, "name"))>>

\* the description the old field of a renamed input field is said to have
FieldDescriptionDue(new) ==
    IF new.Description = <<>> THEN Sentence(new.Name)
    ELSE new.Description \o <<"\n">> \o Sentence(new.Name)

\* the old fields of run i carry the directives due, and those of input
\* objects the description that Described gives
OldFieldsAnnotated(i, Described(_)) ==
    \A p \in DOMAIN Written(i) \cap DOMAIN Due(i) :
        LET def == results[i].input[Due(i)[p].owner]
        IN /\ Len(Written(i)[p].Fields) = Len(MarkedFields(def))
           /\ \A j \in DOMAIN Written(i)[p].Fields \cap DOMAIN MarkedFields(def) :
                 /\ Written(i)[p].Fields[j].Directives
                       = OldDirectivesDue(def.Kind, MarkedFields(def)[j])
                 /\ def.Kind = "INPUT_OBJECT"
                       => Written(i)[p].Fields[j].Description
                             = Described(MarkedFields(def)[j])

\* C17 as stated: the old field of an object or interface carries
\* @deprecated(reason: "Replaced by <newFieldName>.") after its retained
\* directives; the old field of an input object never carries @deprecated and
\* has the description "Deprecated: Replaced by <newFieldName>.", on a new
\* line after an existing description; in both cases the marker is removed
\* and @goField(name: "Deprecated" + capitalised old name) comes last.
C17_OldFieldAnnotationAsStated ==
    \A i \in SuccessfulRuns : OldFieldsAnnotated(i, FieldDescriptionDue)

\* C17: as stated, with every tab of the input field's description written
\* as four spaces.
C17_OldFieldAnnotation ==
    \A i \in SuccessfulRuns :
        OldFieldsAnnotated(i, LAMBDA new : TabsToSpaces(FieldDescriptionDue(new)))

\* a call has returned the old field of an input object's field that has a
\* description and directives before and after its marker
C17_Witness ==
    /\ pc = "idle" /\ results # <<>>
    /\ Len(results) \in SuccessfulRuns
    /\ \E n \in Owners(LastResult.input) :
          /\ LastResult.input[n].Kind = "INPUT_OBJECT"
          /\ MarkedFields(LastResult.input[n])[1].Description # <<>>
          /\ Len(MarkedFields(LastResult.input[n])[1].Directives) = 3
    /\ Written(Len(results)) # <<>>
    /\ Len(Written(Len(results))[1].Fields[1].Directives) = 3
    /\ "\n" \in Range(Written(Len(results))[1].Fields[1].Description)

-----------------------------------------------------------------------------
(* The enum extensions *)

\* the blocks a run wrote after the shadows
AfterShadows(i) ==
    SubSeq(results[i].text,
           Cardinality(MarkedDefinitions(results[i].input)) + 1,
           Len(results[i].text))

\* the enum blocks a run wrote after the shadows
EnumsWritten(i) == SelectSeq(AfterShadows(i), LAMBDA b : b.Kind = "ENUM")

MarkedValues(def) ==
    SelectSeq(def.EnumValues, LAMBDA v : HasMarker(v.Directives))

\* the enums with at least one renamed value
EnumOwners(types) ==
    { n \in DOMAIN types : types[n].Kind = "ENUM" /\ MarkedValues(types[n]) # <<>> }

\* the enum extensions due for a schema, by new enum name
EnumsDue(i) ==
    ExtensionsDue(results[i].input, SortStrings(EnumOwners(results[i].input)), 1)

\* the names and directives of the old values an enum asks for
OldValuesDue(def) ==
    [j \in DOMAIN MarkedValues(def) |->
        [Name |-> MarkerValue(MarkedValues(def)[j].Directives, "name"),
         Directives |-> WithoutMarker(MarkedValues(def)[j].Directives)
                        \o <<DeprecatedDue(MarkedValues(def)[j].Name)>>]]

ValuesOf(b) ==
    [j \in DOMAIN b.EnumValues |->
        [Name |-> b.EnumValues[j].Name, Directives |-> b.EnumValues[j].Directives]]

\* C18: for every enum with a renamed value the overlay holds an enum
\* extension under the enum's name, and a second one under its old name when
\* the enum carries a marker itself, each with every renamed value under its
\* old name, without the marker, with its other directives and with
\* @deprecated(reason: "Replaced by <newValueName>."); the other values are
\* not listed and no other enum extension is written.
C18_EnumValueExtensions ==
    \A i \in SuccessfulRuns :
        /\ Len(EnumsWritten(i)) = Len(EnumsDue(i))
        /\ \A p \in DOMAIN EnumsWritten(i) \cap DOMAIN EnumsDue(i) :
              /\ EnumsWritten(i)[p].Extend
              /\ EnumsWritten(i)[p].Name = EnumsDue(i)[p].name
              /\ ValuesOf(EnumsWritten(i)[p])
                    = OldValuesDue(results[i].input[EnumsDue(i)[p].owner])
              /\ EnumsWritten(i)[p].Directives = <<>>
              /\ EnumsWritten(i)[p].Fields = <<>>

\* a call has returned the two extensions of an enum that carries a marker
\* and has a renamed value with a second directive and a value without marker
C18_Witness ==
    /\ pc = "idle" /\ results # <<>>
    /\ Len(results) \in SuccessfulRuns
    /\ \E n \in EnumOwners(LastResult.input) :
          /\ HasMarker(LastResult.input[n].Directives)
          /\ Len(MarkedValues(LastResult.input[n])) < Len(LastResult.input[n].EnumValues)
          /\ Len(MarkedValues(LastResult.input[n])[1].Directives) >= 2
          /\ Len(EnumsWritten(Len(results))) = 2
          /\ EnumsWritten(Len(results))[1].Name = n
          /\ EnumsWritten(Len(results))[2].Name
                = MarkerValue(LastResult.input[n].Directives, "name")
          /\ Len(EnumsWritten(Len(results))[2].EnumValues[1].Directives) >= 2

-----------------------------------------------------------------------------
(* The backfill of interfaces and union members *)

\* the old names of the names of a list that are renamed in the schema
RECURSIVE OldNamesIn(_, _, _)
OldNamesIn(types, names, j) ==
    IF j > Len(names) THEN <<>>
    ELSE (IF names[j] \in DOMAIN types /\ HasMarker(types[names[j]].Directives)
          THEN <<MarkerValue(types[names[j]].Directives, "name")>> ELSE <<>>)
         \o OldNamesIn(types, names, j + 1)

\* the objects that implement a renamed interface
Implementers(types) ==
    { n \in DOMAIN types :
        /\ types[n].Kind = "OBJECT"
        /\ OldNamesIn(types, types[n].Interfaces, 1) # <<>> }

\* the unions that list a renamed member
UnionsOfRenamed(types) ==
    { n \in DOMAIN types :
        /\ types[n].Kind = "UNION"
        /\ OldNamesIn(types, types[n].Types, 1) # <<>> }

\* the extensions without fields, enum values and directives that a run wrote
\* for objects and for unions
BareWritten(i, kindOf) ==
    SelectSeq(AfterShadows(i),
              LAMBDA b : b.Kind = kindOf /\ b.Fields = <<>> /\ b.Directives = <<>>)

ImplementsDue(i) ==
    ExtensionsDue(results[i].input, SortStrings(Implementers(results[i].input)), 1)

MembersDue(i) ==
    ExtensionsDue(results[i].input, SortStrings(UnionsOfRenamed(results[i].input)), 1)

\* C19: every object that implements a renamed interface and every union that
\* lists a renamed member gets an extension that adds the old names, under
\* the name of the object or union and under its old name too when it
\* carries a marker itself, in whatever order the first pass came across the
\* definitions; no other object or union gets such an extension.
C19_BackfillFromCompleteTable ==
    \A i \in SuccessfulRuns :
        /\ Len(BareWritten(i, "OBJECT")) = Len(ImplementsDue(i))
        /\ \A p \in DOMAIN BareWritten(i, "OBJECT") \cap DOMAIN ImplementsDue(i) :
              /\ BareWritten(i, "OBJECT")[p].Extend
              /\ BareWritten(i, "OBJECT")[p].Name = ImplementsDue(i)[p].name
              /\ BareWritten(i, "OBJECT")[p].Interfaces
                    = OldNamesIn(results[i].input,
                                 results[i].input[ImplementsDue(i)[p].owner].Interfaces, 1)
        /\ Len(BareWritten(i, "UNION")) = Len(MembersDue(i))
        /\ \A p \in DOMAIN BareWritten(i, "UNION") \cap DOMAIN MembersDue(i) :
              /\ BareWritten(i, "UNION")[p].Extend
              /\ BareWritten(i, "UNION")[p].Name = MembersDue(i)[p].name
              /\ BareWritten(i, "UNION")[p].Types
                    = OldNamesIn(results[i].input,
                                 results[i].input[MembersDue(i)[p].owner].Types, 1)

\* a call has returned the two extensions of a renamed object that implements
\* a renamed interface, after a first pass that came across the object before
\* the interface
C19_Witness ==
    /\ pc = "idle" /\ results # <<>>
    /\ Len(results) \in SuccessfulRuns
    /\ Len(r.definitions) = 2
    /\ r.definitions[1].oldName = r.definitions[2].oldName
    /\ r.definitions[1].definition \in Implementers(LastResult.input)
    /\ LastResult.input[r.definitions[2].definition].Kind = "INTERFACE"
    /\ Len(BareWritten(Len(results), "OBJECT")) = 2
    /\ BareWritten(Len(results), "OBJECT")[1].Interfaces = <<r.definitions[2].oldName>>

-----------------------------------------------------------------------------
(* MetadataForOperation *)

\* the fields a selection set selects at any depth, those inside fragment
\* spreads and inline fragments included
RECURSIVE FieldsSelected(_)
FieldsSelected(selectionSet) ==
    UNION { IF selectionSet[j].Kind = "Field"
            THEN {selectionSet[j]} \cup FieldsSelected(selectionSet[j].SelectionSet)
            ELSE IF selectionSet[j].Kind = "FragmentSpread"
            THEN FieldsSelected(selectionSet[j].Definition.SelectionSet)
            ELSE FieldsSelected(selectionSet[j].SelectionSet) :
            j \in DOMAIN selectionSet }

\* the definition of the field has @migrate(state: <state>)
HasState(v, state) ==
    \E d \in Range(v.Definition.Directives) :
        /\ d.Name = "migrate"
        /\ \E a \in Range(d.Arguments) : a.Name = "state" /\ a.Raw = state

\* C20: MetadataForOperation sets HasCanaryFields exactly when a field
\* selected anywhere in the operation, at any depth and inside fragment
\* spreads and inline fragments too, has @migrate(state: "canary") on its
\* definition, and HasSideBySideFields exactly when one has
\* @migrate(state: "side-by-side"); manual and migrated set neither.
C20_FlagsFromAnySelectedField ==
    \A i \in DOMAIN returned :
        returned[i].err = "nil" =>
            /\ returned[i].metadata.HasCanaryFields
                  <=> \E v \in FieldsSelected(query.Operations[1].SelectionSet) :
                         HasState(v, "canary")
            /\ returned[i].metadata.HasSideBySideFields
                  <=> \E v \in FieldsSelected(query.Operations[1].SelectionSet) :
                         HasState(v, "side-by-side")

\* the fields of one object selection set: its own and those of the fragment
\* spreads and inline fragments in it, at any depth of fragments
RECURSIVE FieldsOfObject(_)
FieldsOfObject(selectionSet) ==
    UNION { IF selectionSet[j].Kind = "Field" THEN {selectionSet[j]}
            ELSE IF selectionSet[j].Kind = "FragmentSpread"
            THEN FieldsOfObject(selectionSet[j].Definition.SelectionSet)
            ELSE FieldsOfObject(selectionSet[j].SelectionSet) :
            j \in DOMAIN selectionSet }

\* the object selection sets of an operation: the one of the operation and
\* the one of every field selected at any depth
ObjectSelections(selectionSet) ==
    {selectionSet}
    \cup { v.SelectionSet : v \in { w \in FieldsSelected(selectionSet) :
                                      w.SelectionSet # <<>> } }

\* the selection set selects a field name with an alias and without one
MixesAliases(selectionSet) ==
    \E v, w \in FieldsOfObject(selectionSet) :
        v.Name = w.Name /\ v.Alias # v.Name /\ w.Alias = w.Name

\* C21: MetadataForOperation sets HasMixedAliases exactly when some object
\* selection set of the operation, taken with the fragment spreads and
\* inline fragments in it, selects one field name with an alias and without
\* one; aliases alone, and an alias and a plain selection at different
\* levels, do not set it.
C21_MixedAliasesPerObject ==
    \A i \in DOMAIN returned :
        returned[i].err = "nil" =>
            (returned[i].metadata.HasMixedAliases
                <=> \E s \in ObjectSelections(query.Operations[1].SelectionSet) :
                       MixesAliases(s))

-----------------------------------------------------------------------------
(* The guards of the Replacer *)

\* the calls of a method noted in results
CallsOf(method) == { i \in DOMAIN results : results[i].mode = method }

\* what the Replacer was after call i
AfterCall(i) == IF i = Len(results) THEN r ELSE results[i + 1].before

\* C22: once processSchema has been called on a Replacer, every further call
\* of it appends exactly one Internal error "processSchema called multiple
\* times" and leaves definitions, fields, enum values, extra implements,
\* extra union members, the rename table, the definition kinds and the
\* federation keys as they were; hasProcessedSchema never returns to false.
C22_SecondIndexingOnlyAddsError ==
    /\ \A i \in CallsOf("processSchema") :
          results[i].before.hasProcessedSchema =>
              AfterCall(i) = [results[i].before EXCEPT !.errors =
                  Append(@, [Kind |-> "Internal",
                             Message |-> "processSchema called multiple times",
                             Where |-> <<>>])]
    /\ \A i \in DOMAIN results :
          results[i].before.hasProcessedSchema => AfterCall(i).hasProcessedSchema

\* processSchema has been called a second time on a Replacer that holds
\* renamed definitions and renamed fields
C22_Witness ==
    /\ Cardinality(CallsOf("processSchema")) >= 2
    /\ results[Len(results)].mode = "processSchema"
    /\ r.definitions # <<>>
    /\ DOMAIN r.fields # {}
    /\ r.errors # <<>>
    /\ r.errors[Len(r.errors)].Kind = "Internal"

\* the calls of getSchemaAdditions made after an earlier one that followed
\* processSchema
SecondSyntheses ==
    { i \in CallsOf("getSchemaAdditions") :
        \E j \in CallsOf("getSchemaAdditions") :
            j < i /\ results[j].before.hasProcessedSchema }

\* C23: a second call of getSchemaAdditions on the same Replacer writes
\* nothing and records one more Internal error, as a call made before
\* processSchema records an Internal error and returns the empty text.
C23_SynthesisGuardedTwice ==
    /\ \A i \in CallsOf("getSchemaAdditions") :
          ~results[i].before.hasProcessedSchema =>
              /\ results[i].text = <<>>
              /\ AfterCall(i) = [results[i].before EXCEPT !.errors =
                    Append(@, [Kind |-> "Internal",
                               Message |-> "must call processSchema before getSchemaAdditions",
                               Where |-> <<>>])]
    /\ \A i \in SecondSyntheses :
          /\ results[i].text = <<>>
          /\ Len(AfterCall(i).errors) = Len(results[i].before.errors) + 1
          /\ AfterCall(i).errors[Len(AfterCall(i).errors)].Kind = "Internal"

-----------------------------------------------------------------------------
(* The order of the overlay *)

\* the stage that wrote a block that follows the shadows
StageOf(b) ==
    CASE b.Fields # <<>> -> 2
      [] b.EnumValues # <<>> -> 3
      [] b.Kind = "UNION" -> 5
      [] OTHER -> 4

StageDue(stage, due) ==
    [p \in DOMAIN due |-> [stage |-> stage, name |-> due[p].name]]

\* the extensions a schema asks for, stage after stage, each stage by the new
\* name of the owner and the new name before the old one
OverlayDue(i) ==
    StageDue(2, Due(i)) \o StageDue(3, EnumsDue(i))
        \o StageDue(4, ImplementsDue(i)) \o StageDue(5, MembersDue(i))

OverlayWritten(i) ==
    [p \in DOMAIN AfterShadows(i) |->
        [stage |-> StageOf(AfterShadows(i)[p]), name |-> AfterShadows(i)[p].Name]]

Ascending(blocks) ==
    \A p \in 1..(Len(blocks) - 1) : ~LessStr(blocks[p + 1].Name, blocks[p].Name)

\* the free text of a written block
TextsOf(b) ==
    {b.Description}
        \cup { b.Fields[j].Description : j \in DOMAIN b.Fields }
        \cup { b.EnumValues[j].Description : j \in DOMAIN b.EnumValues }

-----------------------------------------------------------------------------
(* The table of renamed definitions *)

\* C25: the table from new names to old names that the first pass builds is
\* injective: no two renamed definitions have the same old name.
C25_RenameTableInjective ==
    \A n, m \in DOMAIN r.cacheReplacedTypes :
        r.cacheReplacedTypes[n] = r.cacheReplacedTypes[m] => n = m

-----------------------------------------------------------------------------
(* Marker extraction *)

\* the first @replaces directive of a list, as a sequence of length 0 or 1
FirstMarker(directives) ==
    LET at == { j \in DOMAIN directives :
                  /\ directives[j].Name = "replaces"
                  /\ \A k \in 1..(j - 1) : directives[k].Name # "replaces" }
    IN [j \in 1..Cardinality(at) |-> directives[CHOOSE k \in at : TRUE]]

\* the value of the first argument of that name, as a sequence of length 0 or 1
Supplied(arguments, name) ==
    LET at == { j \in DOMAIN arguments :
                  /\ arguments[j].Name = name
                  /\ \A k \in 1..(j - 1) : arguments[k].Name # name }
    IN [j \in 1..Cardinality(at) |-> arguments[CHOOSE k \in at : TRUE].Raw]

ValueOrEmpty(supplied) == IF supplied = <<>> THEN <<>> ELSE supplied[1]

\* C26: GetReplaceInfo answers NotFound for a list without marker, and the
\* Replacer keeps no error for it; it answers an Internal error for a marker
\* without name, which the Replacer keeps; otherwise it answers the name as
\* OldName, the type or the empty string as OldTypeName, and
\* TreatZeroAsUnsetPresent exactly when treatZeroAsUnset is supplied, as true
\* or as false.
C26_MarkerExtraction ==
    \A i \in DOMAIN results :
        LET marker == FirstMarker(results[i].input)
            call == results[i]
        IN IF marker = <<>>
           THEN /\ ~call.ok
                /\ call.mode = "GetReplaceInfo" => call.err = "NotFound"
                /\ call.mode = "getReplaceInfo" => AfterCall(i) = call.before
           ELSE IF Supplied(marker[1].Arguments, "name") = <<>>
           THEN /\ ~call.ok
                /\ call.mode = "GetReplaceInfo" => call.err = "Internal"
                /\ call.mode = "getReplaceInfo" =>
                      /\ Len(AfterCall(i).errors) = Len(call.before.errors) + 1
                      /\ AfterCall(i).errors[Len(AfterCall(i).errors)].Kind = "Internal"
           ELSE /\ call.ok
                /\ call.mode = "getReplaceInfo" => AfterCall(i) = call.before
                /\ call.info.OldName = Supplied(marker[1].Arguments, "name")[1]
                /\ call.info.OldTypeName
                      = ValueOrEmpty(Supplied(marker[1].Arguments, "type"))
                /\ call.info.TreatZeroAsUnsetPresent
                      = (Supplied(marker[1].Arguments, "treatZeroAsUnset") # <<>>)

\* the Replacer was asked about a marker without name and kept one error,
\* and GetReplaceInfo then answered a marker with a type and with
\* treatZeroAsUnset: false
C26_Witness ==
    /\ Len(results) = 2
    /\ results[1].mode = "getReplaceInfo" /\ results[2].mode = "GetReplaceInfo"
    /\ FirstMarker(results[1].input) # <<>>
    /\ Supplied(FirstMarker(results[1].input)[1].Arguments, "name") = <<>>
    /\ Len(r.errors) = 1
    /\ results[2].ok
    /\ results[2].info.OldTypeName = tU
    /\ results[2].info.TreatZeroAsUnsetPresent
    /\ ~results[2].info.TreatZeroAsUnset

-----------------------------------------------------------------------------
(* The order of the error list *)

\* C27: two calls on the same schema return their errors in the same order,
\* whatever the order in which each call's loops came across the definitions.
C27_ErrorOrderDeterministic ==
    \A i, j \in DOMAIN results :
        results[i].input = results[j].input =>
            results[i].err.errorlist = results[j].err.errorlist

-----------------------------------------------------------------------------
(* The kinds of the errors *)

\* the messages of the violations of a schema that its author can make
UserMessages ==
    {sDefinitionNameOnly, sEnumValueNameOnly, sArgumentNeedsField,
     sMustBeNullable, sNeedsTreatZero}

\* the messages for a marker without name and for a misused Replacer
InternalMessages ==
    {"name required on @replaces directive", sProcessedTwice, sNotProcessed}

\* C28: an error for a type on the marker of a definition or enum value, for
\* a renamed argument of a field that is not renamed, for a renamed input
\* field that is not nullable and for a missing treatZeroAsUnset is of kind
\* InvalidInput; an error is of kind Internal only for a marker without name
\* and for a misused Replacer.
C28_ErrorKinds ==
    \A i \in DOMAIN results :
        \A p \in DOMAIN results[i].err.errorlist :
            LET e == results[i].err.errorlist[p]
            IN /\ e.Message \in UserMessages => e.Kind = "InvalidInput"
               /\ e.Kind = "Internal" => e.Message \in InternalMessages

-----------------------------------------------------------------------------
(* The two field extensions of a renamed type *)

\* the places of the field extensions a run wrote under the new name of a
\* type that is renamed itself
NewNamePlaces(i) ==
    { p \in DOMAIN Written(i) \cap DOMAIN Due(i) :
        /\ p + 1 \in DOMAIN Written(i) \cap DOMAIN Due(i)
        /\ Due(i)[p].owner = Due(i)[p + 1].owner }

Unnamed(b) == [b EXCEPT !.Name = <<>>]

\* C29: the field extension under the new name of a renamed type and the one
\* under its old name differ in the name only: same old-named fields, same
\* rewritten @key directives.
C29_TwoExtensionsAlike ==
    \A i \in SuccessfulRuns :
        \A p \in NewNamePlaces(i) :
            Unnamed(Written(i)[p]) = Unnamed(Written(i)[p + 1])

-----------------------------------------------------------------------------
(* ValidateReplacesDirectives against GetReplacesDirectiveUpdates *)

\* C30: on the same schema ValidateReplacesDirectives returns an error
\* exactly when GetReplacesDirectiveUpdates does: synthesis adds no error to
\* the ones of the two passes.
C30_ValidateAgreesWithUpdates ==
    \A i, j \in DOMAIN results :
        /\ results[i].mode = "validate"
        /\ results[j].mode = "updates"
        /\ results[i].input = results[j].input
        => (results[i].err.failed <=> results[j].err.failed)

=============================================================================
